---- MODULE Spec2Model ----
(***************************************************************************)
(* A model of the NWBConverter orchestration of neuroconv: construction    *)
(* from a source configuration, metadata collection, and one conversion    *)
(* run over the instantiated data interfaces.                              *)
(*                                                                         *)
(* Python dictionaries, lists and scalars are modelled as tagged trees:    *)
(*   Map(f)  a dict, f a function from string keys to trees                *)
(*   Arr(s)  a list, s a sequence of trees                                 *)
(*   Leaf(v) a scalar, v a string ("true"/"false" stand for booleans)      *)
(*   NoneT   Python's None                                                 *)
(***************************************************************************)
EXTENDS Integers, Sequences, FiniteSets, TLC

VARIABLES
    source_data,             \* constructor argument: interface name -> argument tag
    pc,                      \* position of the caller in the converter's life cycle
    err,                     \* name of the error that reached the caller, or "None"
    data_interface_objects,  \* self.data_interface_objects, in insertion order
    init_calls,              \* interface constructors called so far, in order
    meta,                    \* header read by SpikeGLXRecordingInterface.__init__
    args,                    \* arguments of the current run_conversion call
    metadata,                \* local `metadata` of run_conversion
    conversion_options_to_run, \* local `conversion_options_to_run`
    nwbfile,                 \* local `nwbfile` of run_conversion (a handle name)
    nwbfile_out,             \* handle yielded by make_or_load_nwbfile
    acquired,                \* number of times the output resource was acquired
    released,                \* number of times its release routine ran
    calls,                   \* run_conversion calls made on interfaces, in order
    written,                 \* handle -> names of the interfaces that wrote into it
    ret,                     \* value returned by run_conversion
    group_order,             \* order in which this process iterates set(group_name)
    md_log,                  \* results of get_metadata() calls, in order
    merge_objects,           \* interfaces of the converter whose metadata is merged
    interface_metadata,      \* what each interface.get_metadata() returned, in loop order
    merged_metadata,         \* local `metadata` of NWBConverter.get_metadata
    operands,                \* three trees handed to dict_deep_update
    grouped,                 \* their merge grouped to the left and to the right
    align_class,             \* class of the interface whose timestamps are aligned
    source_timestamps,       \* the timestamps the interface's underlying source holds
    timestamps,              \* the interface's current in-memory timestamps
    align_calls,             \* the timestamp methods called so far, with their outcomes
    movie_file,              \* what the movie file holds: frame times and header rate
    movie_args,              \* arguments of the MovieInterface.run_conversion call
    image_series,            \* the ImageSeries the call added, and where
    schema_objects,          \* interfaces of the converter whose schemas are merged
    interface_schemas,       \* what each interface.get_metadata_schema() returned
    merged_schema,           \* local `metadata_schema` of NWBConverter.get_metadata_schema
    schema_pc,               \* position inside NWBConverter.get_metadata_schema
    class_schemas,           \* what the converter's schema classmethods returned
    unroot_calls,            \* successive unroot_schema calls, each on the last result
    ttl_trace,               \* the TTL trace: shape after the first axis, and samples
    ttl_threshold,           \* the threshold argument, or None
    ttl_frames,              \* outcomes of the rising and the falling frame calls
    cell_session,            \* what CellExplorerSortingInterface finds on disk
    cell_properties,         \* properties set on the sorting extractor, or None
    cell_metadata,           \* outcome of CellExplorerSortingInterface.get_metadata()
    nidq_meta,               \* header read by SpikeGLXNIDQInterface.__init__
    nidq_calls               \* SpikeGLXNIDQInterface methods called, with outcomes

\* the state of the converter's construction and conversion run
converterVars == <<source_data, pc, err, data_interface_objects, init_calls, meta, args,
                   metadata, conversion_options_to_run, nwbfile, nwbfile_out, acquired,
                   released, calls, written, ret, group_order, md_log>>

\* the state of one NWBConverter.get_metadata() loop
mergeVars == <<merge_objects, interface_metadata, merged_metadata>>

\* the state of the dict_deep_update groupings
updateVars == <<operands, grouped>>

\* the state of one interface's timestamps
alignVars == <<align_class, source_timestamps, timestamps, align_calls>>

\* the state of one MovieInterface.run_conversion call
movieVars == <<movie_file, movie_args, image_series>>

\* the state of one NWBConverter.get_metadata_schema() call and of the
\* schema classmethods
schemaVars == <<schema_objects, interface_schemas, merged_schema, schema_pc,
                class_schemas, unroot_calls>>

\* the state of the TTL frame detection
ttlVars == <<ttl_trace, ttl_threshold, ttl_frames>>

\* the state of one CellExplorerSortingInterface
cellVars == <<cell_session, cell_properties, cell_metadata>>

\* the state of one SpikeGLXNIDQInterface
nidqVars == <<nidq_meta, nidq_calls>>

\* the schema, TTL, CellExplorer and NIDQ state
lateVars == <<schemaVars, ttlVars, cellVars, nidqVars>>

\* the converter, merge, update, alignment and movie state
earlyVars == <<converterVars, mergeVars, updateVars, alignVars, movieVars>>

\* everything but the schema state
notSchemaVars == <<earlyVars, ttlVars, cellVars, nidqVars>>

\* everything but the TTL state
notTTLVars == <<earlyVars, schemaVars, cellVars, nidqVars>>

\* everything but the CellExplorer interface
notCellVars == <<earlyVars, schemaVars, ttlVars, nidqVars>>

\* everything but the NIDQ interface
notNIDQVars == <<earlyVars, schemaVars, ttlVars, cellVars>>

\* everything but the converter's construction and conversion run
auxVars == <<mergeVars, updateVars, alignVars, movieVars, lateVars>>

\* everything but the get_metadata() loop
notMergeVars == <<converterVars, updateVars, alignVars, movieVars, lateVars>>

\* everything but the dict_deep_update groupings
notUpdateVars == <<converterVars, mergeVars, alignVars, movieVars, lateVars>>

\* everything but the interface's timestamps
notAlignVars == <<converterVars, mergeVars, updateVars, movieVars, lateVars>>

\* everything but the movie conversion
notMovieVars == <<converterVars, mergeVars, updateVars, alignVars, lateVars>>

vars == <<converterVars, auxVars>>

----------------------------------------------------------------------------
(* Trees *)

NoneT == [kind |-> "none"]

Leaf(v) == [kind |-> "val", val |-> v]

Map(f) == [kind |-> "map", kids |-> f]

Arr(s) == [kind |-> "arr", items |-> s]

EmptyDict == Map(<<>>)

Keys(t) == DOMAIN t.kids

Range(s) == {s[i] : i \in DOMAIN s}

\* d.get(key, dict())
GetOrEmpty(d, key) == IF key \in Keys(d) THEN d.kids[key] ELSE EmptyDict

----------------------------------------------------------------------------
(* utils: dict_deep_update, get_base_schema, unroot_schema, fill_defaults,  *)
(* and the jsonschema validation the converter relies on                    *)

\* dict_deep_update when two lists at the same key are concatenated
RECURSIVE dict_deep_update_Extend(_, _)
dict_deep_update_Extend(base, modifier) ==
    Map([k \in Keys(base) \cup Keys(modifier) |->
            IF k \notin Keys(modifier) THEN base.kids[k]
            ELSE IF k \notin Keys(base) THEN modifier.kids[k]
            ELSE IF base.kids[k].kind = "map" /\ modifier.kids[k].kind = "map"
                 THEN dict_deep_update_Extend(base.kids[k], modifier.kids[k])
            ELSE IF base.kids[k].kind = "arr" /\ modifier.kids[k].kind = "arr"
                 THEN Arr(base.kids[k].items \o modifier.kids[k].items)
            ELSE modifier.kids[k]])

\* dict_deep_update when only the keys the base already has are updated
RECURSIVE dict_deep_update_ExistingOnly(_, _)
dict_deep_update_ExistingOnly(base, modifier) ==
    Map([k \in Keys(base) |->
            IF k \notin Keys(modifier) THEN base.kids[k]
            ELSE IF base.kids[k].kind = "map" /\ modifier.kids[k].kind = "map"
                 THEN dict_deep_update_ExistingOnly(base.kids[k], modifier.kids[k])
                 ELSE modifier.kids[k]])

\* dict_deep_update(base, modifier): for every key of the modifier, recurse
\* when both sides hold a mapping, otherwise the modifier's value replaces
\* the base's value wholesale (arrays included); keys only in base are kept.
RECURSIVE dict_deep_update(_, _)
dict_deep_update(base, modifier) ==
    Map([k \in Keys(base) \cup Keys(modifier) |->
            IF k \notin Keys(modifier) THEN base.kids[k]
            ELSE IF k \in Keys(base)
                    /\ base.kids[k].kind = "map"
                    /\ modifier.kids[k].kind = "map"
                 THEN dict_deep_update(base.kids[k], modifier.kids[k])
                 ELSE modifier.kids[k]])

\* the fields every schema produced by get_base_schema carries
BaseSchemaFields(required, properties) ==
    ("required" :> Arr([i \in DOMAIN required |-> Leaf(required[i])]))
    @@ ("properties" :> Map(properties))
    @@ ("type" :> Leaf("object"))
    @@ ("additionalProperties" :> Leaf("false"))

\* get_base_schema(root=True, id_=..., title=..., required=..., properties=...)
get_base_schema(root, id_, title, required, properties) ==
    Map(BaseSchemaFields(required, properties)
        @@ (IF root THEN ("$schema" :> Leaf("http://json-schema.org/draft-07/schema#"))
            ELSE <<>>)
        @@ (IF id_ # "None" THEN ("id" :> Leaf(id_)) ELSE <<>>)
        @@ (IF title # "None" THEN ("title" :> Leaf(title)) ELSE <<>>))

\* the keys that identify a root schema
RootOnlyKeys == {"id", "title", "$schema"}

\* unroot_schema(schema): the schema without its root-only keys
unroot_schema(schema) ==
    Map([k \in Keys(schema) \ RootOnlyKeys |-> schema.kids[k]])

\* JSON type of a scalar
TypeOf(v) == IF v \in {"true", "false"} THEN "boolean" ELSE "string"

\* jsonschema.validate(instance, schema) succeeds
RECURSIVE validate(_, _)
validate(instance, schema) ==
    LET has(k) == k \in Keys(schema)
        ty == IF has("type") THEN schema.kids["type"].val ELSE "any"
    IN  /\ ty = "object" => instance.kind = "map"
        /\ ty = "array" => instance.kind = "arr"
        /\ ty \in {"string", "boolean"} =>
               instance.kind = "val" /\ TypeOf(instance.val) = ty
        /\ instance.kind = "map" =>
             /\ has("required") =>
                    \A r \in Range(schema.kids["required"].items) :
                        r.val \in Keys(instance)
             /\ \A k \in Keys(instance) :
                    IF has("properties") /\ k \in Keys(schema.kids["properties"])
                    THEN validate(instance.kids[k], schema.kids["properties"].kids[k])
                    ELSE ~(has("additionalProperties")
                           /\ schema.kids["additionalProperties"].val = "false")
        /\ (instance.kind = "arr" /\ has("items")) =>
               \A e \in Range(instance.items) : validate(e, schema.kids["items"])

\* a dict value that is the very object held under `key` of the same dict,
\* inserted after it
SameObject(key) == [kind |-> "same", key |-> key]

\* the keys of a dict that hold the object held under key k
Aliases(kids, k) == {r \in DOMAIN kids : kids[r] = SameObject(k)}

\* the tree a reader sees: every shared object shown where it is held
RECURSIVE Deref(_)
Deref(t) ==
    IF t.kind = "map"
    THEN Map([k \in Keys(t) |->
                IF t.kids[k].kind = "same" THEN Deref(t.kids[t.kids[k].key])
                ELSE Deref(t.kids[k])])
    ELSE IF t.kind = "arr" THEN Arr([i \in DOMAIN t.items |-> Deref(t.items[i])])
    ELSE t

\* fill_defaults(schema, defaults): walk schema["properties"] in insertion
\* order; for a key also in defaults, recurse into object-typed properties and
\* set "default" on others. The walk writes into the schema in place, so an
\* object held under two keys is written once for each key, in that order.
RECURSIVE fill_defaults(_, _)
fill_defaults(schema, defaults) ==
    IF "properties" \notin Keys(schema) \/ defaults.kind # "map" THEN schema
    ELSE
    LET props == schema.kids["properties"]
        visit(val, k) ==
            IF k \notin Keys(defaults) THEN val
            ELSE IF "type" \in Keys(val) /\ val.kids["type"].val = "object"
                 THEN fill_defaults(val, defaults.kids[k])
                 ELSE Map(("default" :> defaults.kids[k]) @@ val.kids)
        filled(k) ==
            IF props.kids[k].kind = "same" THEN props.kids[k]
            ELSE LET own == visit(props.kids[k], k)
                     later == Aliases(props.kids, k)
                 IN  IF later = {} THEN own
                     ELSE visit(own, CHOOSE r \in later : TRUE)
    IN  Map(("properties" :> Map([k \in Keys(props) |-> filled(k)])) @@ schema.kids)

----------------------------------------------------------------------------
(* The data interface classes a converter subclass registers *)

\* NWBConverter.data_interface_classes of the modelled subclass, in insertion
\* order: SpikeGLXRecordingInterface, MovieInterface, and a child of
\* MovieInterface that overrides get_conversion_options
data_interface_classes == <<"SpikeGLX", "Movie", "Child">>

RegisteredNames == Range(data_interface_classes)

\* a property of a signature-derived schema
TypedProperty(type) ==
    IF type = "any" THEN EmptyDict ELSE Map("type" :> Leaf(type))

\* get_schema_from_method_signature: one property per non-excluded parameter,
\* parameters without a default are required
get_schema_from_method_signature(params, required) ==
    get_base_schema(FALSE, "None", "None", required,
                    [k \in DOMAIN params |-> TypedProperty(params[k])])

\* parameters of SpikeGLXRecordingInterface.__init__
SpikeGLXInitParams ==
    ("file_path" :> "string") @@ ("stub_test" :> "boolean")
    @@ ("spikeextractors_backend" :> "boolean") @@ ("verbose" :> "boolean")

\* parameters of MovieInterface.__init__
MovieInitParams == ("file_path" :> "string")

\* data_interface.get_source_schema()
InterfaceSourceSchema(name) ==
    IF name = "SpikeGLX"
    THEN get_schema_from_method_signature(SpikeGLXInitParams, <<"file_path">>)
    ELSE get_schema_from_method_signature(MovieInitParams, <<"file_path">>)

\* keyword parameters of SpikeGLXRecordingInterface.run_conversion other than
\* nwbfile and metadata
SpikeGLXRunParams ==
    ("nwbfile_path" :> "any") @@ ("overwrite" :> "boolean")
    @@ ("stub_test" :> "boolean") @@ ("starting_time" :> "any")
    @@ ("write_as" :> "any") @@ ("write_electrical_series" :> "boolean")
    @@ ("es_key" :> "string") @@ ("compression" :> "any")
    @@ ("compression_opts" :> "any") @@ ("iterator_type" :> "string")
    @@ ("iterator_opts" :> "any")

\* keyword parameters of MovieInterface.run_conversion other than nwbfile and
\* metadata
MovieRunParams ==
    ("stub_test" :> "boolean") @@ ("external_mode" :> "boolean")
    @@ ("starting_time" :> "any") @@ ("chunk_data" :> "boolean")
    @@ ("module_name" :> "any") @@ ("module_description" :> "any")

\* BaseDataInterface.get_conversion_options_schema()
InterfaceOptionsSchema(name) ==
    IF name = "SpikeGLX"
    THEN get_schema_from_method_signature(SpikeGLXRunParams, <<>>)
    ELSE get_schema_from_method_signature(MovieRunParams, <<>>)

\* BaseDataInterface.get_conversion_options(): dict() unless a child overrides
\* it; the Child class returns dict(external_mode=False)
InterfaceConversionOptions(name) ==
    IF name = "Child" THEN Map("external_mode" :> Leaf("false")) ELSE EmptyDict

----------------------------------------------------------------------------
(* NWBConverter: schemas and validation *)

\* NWBConverter.get_source_schema() when the enclosing schema is built
\* without root=True, id_ and title
get_source_schema_NotRoot ==
    LET source_schema == get_base_schema(FALSE, "None", "None", <<>>, <<>>)
    IN  Map(("properties" :>
                Map([n \in RegisteredNames |->
                        unroot_schema(InterfaceSourceSchema(n))]))
            @@ source_schema.kids)

\* NWBConverter.get_source_schema()
get_source_schema ==
    LET source_schema == get_base_schema(TRUE, "source.schema.json",
                                         "Source data schema", <<>>, <<>>)
    IN  Map(("properties" :>
                Map([n \in RegisteredNames |->
                        unroot_schema(InterfaceSourceSchema(n))]))
            @@ source_schema.kids)

\* NWBConverter.get_conversion_options_schema()
get_conversion_options_schema ==
    LET conversion_options_schema ==
            get_base_schema(TRUE, "conversion_options.schema.json",
                            "Conversion options schema", <<>>, <<>>)
    IN  Map(("properties" :>
                Map([n \in RegisteredNames |->
                        unroot_schema(InterfaceOptionsSchema(n))]))
            @@ conversion_options_schema.kids)

\* NWBConverter._validate_source_data succeeds
ValidSource(source) == validate(source, get_source_schema)

\* NWBConverter.validate_conversion_options succeeds
ValidConversionOptions(options) == validate(options, get_conversion_options_schema)

\* the names __init__ instantiates, in the order of data_interface_classes
RECURSIVE SelectNames(_, _)
SelectNames(classes, source) ==
    IF classes = <<>> THEN <<>>
    ELSE IF Head(classes) \in Keys(source)
         THEN <<Head(classes)>> \o SelectNames(Tail(classes), source)
         ELSE SelectNames(Tail(classes), source)

\* InstantiatedNames without the `if name in source_data` filter
InstantiatedNames_All(source) == data_interface_classes

\* the dict comprehension of __init__: the registered names that are in
\* source_data, in the order of data_interface_classes
InstantiatedNames(source) == SelectNames(data_interface_classes, source)

\* NWBConverter.get_conversion_options()
get_conversion_options(objects) ==
    Map([n \in Range(objects) |-> InterfaceConversionOptions(n)])

----------------------------------------------------------------------------
(* Metadata: what each interface contributes and how the converter merges *)

\* the values str(uuid.uuid4()) may return
UUIDs == {"uuid-1", "uuid-2"}

\* the headers SpikeGLXRecordingInterface.__init__ may read into self.meta:
\* with or without a session start time, with or without imDatPrb_type, and
\* a probe of one or two shanks
MetaHeaders == [start : BOOLEAN, prb : BOOLEAN, shanks : {1, 2}]

NoMeta == [start |-> FALSE, prb |-> FALSE, shanks |-> 1]

\* get_default_nwbfile_metadata(): the default NWBFile session fields
get_default_nwbfile_metadata ==
    Map("NWBFile" :> Map("session_description" :> Leaf("no description")))

\* BaseMetadata when the drawn uuid also goes into the session description
BaseMetadata_UuidDescription(uuid) ==
    Map("NWBFile" :> Map(("session_description" :> Leaf(uuid))
                         @@ ("identifier" :> Leaf(uuid))))

\* BaseDataInterface.get_metadata()
BaseMetadata(uuid) ==
    Map("NWBFile" :> Map(("session_description" :> Leaf("Auto-generated by neuroconv"))
                         @@ ("identifier" :> Leaf(uuid))))

\* BaseRecordingExtractorInterface.get_metadata(): the base skeleton plus an
\* Ecephys section
BaseRecordingMetadata(uuid) ==
    Map(("Ecephys" :> EmptyDict) @@ BaseMetadata(uuid).kids)

\* SpikeGLXRecordingInterface.get_device_metadata()
get_device_metadata(m) ==
    Map(("name" :> Leaf("Neuropixel-Imec"))
        @@ ("description" :> Leaf(IF m.prb THEN "{probe_type: 0, probe_type_description: NP1.0}"
                                  ELSE "no description"))
        @@ ("manufacturer" :> Leaf("Imec")))

\* the orders in which iterating set(group_name) may yield the shank groups
GroupOrders(m) ==
    IF m.shanks = 1 THEN {<<"s0">>} ELSE {<<"s0", "s1">>, <<"s1", "s0">>}

\* SpikeGLXRecordingInterface.get_metadata(), with the uuid drawn and the
\* iteration order of the group set as parameters
SpikeGLXMetadata(m, uuid, groups) ==
    LET super == BaseRecordingMetadata(uuid)
        with_start ==
            IF m.start
            THEN dict_deep_update(super,
                    Map("NWBFile" :> Map("session_start_time" :> Leaf("2020-11-03T10:35:10"))))
            ELSE super
        device == get_device_metadata(m)
        electrode_groups ==
            [i \in DOMAIN groups |->
                Map(("name" :> Leaf(groups[i]))
                    @@ ("description" :> Leaf(IF groups[i] = "s0"
                                              THEN "a group representing shank s0"
                                              ELSE "a group representing shank s1"))
                    @@ ("location" :> Leaf("unknown"))
                    @@ ("device" :> device.kids["name"]))]
        electrodes ==
            <<Map(("name" :> Leaf("shank_electrode_number"))
                  @@ ("description" :> Leaf("0-indexed channel within a shank."))),
              Map(("name" :> Leaf("group_name"))
                  @@ ("description" :> Leaf("Name of the ElectrodeGroup this electrode is a part of."))),
              Map(("name" :> Leaf("contact_shapes"))
                  @@ ("description" :> Leaf("The shape of the electrode")))>>
        ecephys ==
            Map(("Device" :> Arr(<<device>>))
                @@ ("ElectrodeGroup" :> Arr(electrode_groups))
                @@ ("Electrodes" :> Arr(electrodes))
                @@ ("ElectricalSeriesRaw" :>
                        Map(("name" :> Leaf("ElectricalSeriesRaw"))
                            @@ ("description" :> Leaf("Raw acquisition traces for the high-pass (ap) SpikeGLX data."))))
                @@ with_start.kids["Ecephys"].kids)
    IN  Map(("Ecephys" :> ecephys) @@ with_start.kids)

\* interface.get_metadata() of the named interface
InterfaceMetadata(name, m, uuid, groups) ==
    IF name = "SpikeGLX" THEN SpikeGLXMetadata(m, uuid, groups)
    ELSE BaseMetadata(uuid)

\* the loop of NWBConverter.get_metadata over objects[i..]
RECURSIVE MergeInterfaceMetadata(_, _, _, _, _, _)
MergeInterfaceMetadata(md, objects, i, m, uuids, groups) ==
    IF i > Len(objects) THEN md
    ELSE MergeInterfaceMetadata(
            dict_deep_update(md, InterfaceMetadata(objects[i], m, uuids[i], groups)),
            objects, i + 1, m, uuids, groups)

\* NWBConverter.get_metadata(); uuids[i] is the uuid the i-th instantiated
\* interface draws
get_metadata(objects, m, uuids, groups) ==
    MergeInterfaceMetadata(get_default_nwbfile_metadata, objects, 1, m, uuids, groups)

\* the draws one get_metadata() call makes
UUIDDraws(objects) == [1..Len(objects) -> UUIDs]

\* get_schema_for_NWBFile()
get_schema_for_NWBFile ==
    get_base_schema(FALSE, "None", "None", <<"session_description", "identifier">>,
                    ("session_description" :> TypedProperty("string"))
                    @@ ("identifier" :> TypedProperty("string"))
                    @@ ("session_start_time" :> TypedProperty("string")))

\* get_schema_from_hdmf_class(Subject)
SubjectSchema ==
    get_base_schema(FALSE, "None", "None", <<>>,
                    ("subject_id" :> TypedProperty("string")))

\* get_schema_from_hdmf_class(ElectricalSeries)
ElectricalSeriesSchema ==
    get_base_schema(FALSE, "None", "None", <<"name">>,
                    ("name" :> TypedProperty("string"))
                    @@ ("description" :> TypedProperty("string")))

\* BaseDataInterface.get_metadata_schema()
BaseMetadataSchema ==
    get_base_schema(TRUE, "metadata.schema.json", "Metadata", <<>>, <<>>)

\* BaseRecordingExtractorInterface.get_metadata_schema(): the base schema with
\* an Ecephys property describing Device, ElectrodeGroup and Electrodes
BaseRecordingMetadataSchema ==
    LET ecephys ==
            get_base_schema(FALSE, "None", "None", <<"Device", "ElectrodeGroup">>,
                            ("Device" :> TypedProperty("array"))
                            @@ ("ElectrodeGroup" :> TypedProperty("array"))
                            @@ ("Electrodes" :> TypedProperty("array")))
    IN  Map(("properties" :> Map("Ecephys" :> ecephys)) @@ BaseMetadataSchema.kids)

\* SpikeGLXRecordingInterface.get_metadata_schema()
SpikeGLXMetadataSchema ==
    LET metadata_schema == BaseRecordingMetadataSchema
        ecephys == metadata_schema.kids["properties"].kids["Ecephys"]
        updated ==
            Map(("properties" :>
                    Map(("ElectricalSeriesRaw" :> ElectricalSeriesSchema)
                        @@ ecephys.kids["properties"].kids))
                @@ ecephys.kids)
    IN  Map(("properties" :> Map("Ecephys" :> updated)) @@ metadata_schema.kids)

\* data_interface.get_metadata_schema() of the named interface
InterfaceMetadataSchema(name) ==
    IF name = "SpikeGLX" THEN SpikeGLXMetadataSchema ELSE BaseMetadataSchema

\* the loop of NWBConverter.get_metadata_schema over objects[i..]
RECURSIVE MergeInterfaceSchemas(_, _, _)
MergeInterfaceSchemas(schema, objects, i) ==
    IF i > Len(objects) THEN schema
    ELSE MergeInterfaceSchemas(
            dict_deep_update(schema, unroot_schema(InterfaceMetadataSchema(objects[i]))),
            objects, i + 1)

\* NWBConverter.get_metadata_schema(); default_values is what its call of
\* self.get_metadata() returned
get_metadata_schema(objects, default_values) ==
    LET metadata_schema ==
            get_base_schema(TRUE, "metadata.schema.json", "Metadata", <<"NWBFile">>,
                            ("NWBFile" :> get_schema_for_NWBFile)
                            @@ ("Subject" :> SubjectSchema))
    IN  fill_defaults(MergeInterfaceSchemas(metadata_schema, objects, 1), default_values)

\* NWBConverter.validate_metadata succeeds
ValidMetadata(md, objects, default_values) ==
    validate(md, get_metadata_schema(objects, default_values))

----------------------------------------------------------------------------
(* Inputs *)

\* an output container: the caller's NWBFile, the one made by
\* make_nwbfile_from_metadata, or the one yielded by make_or_load_nwbfile
Handle(h) == [kind |-> "handle", name |-> h]

HandleNames == {"caller", "memory", "file"}

GoodArgs == Map("file_path" :> Leaf("/data/session.bin"))

\* constructor arguments that lack the required file_path
BadArgs == EmptyDict

SourceNames == RegisteredNames \cup {"Unknown"}

\* the source configurations a caller may pass to the constructor
SourceConfigs ==
    {Map(f) : f \in UNION {[S -> {GoodArgs, BadArgs}] : S \in SUBSET SourceNames}}

GivenMetadata ==
    Map("NWBFile" :> Map(("session_description" :> Leaf("given"))
                         @@ ("identifier" :> Leaf("given-id"))))

\* metadata whose NWBFile section lacks the required identifier
IncompleteMetadata ==
    Map("NWBFile" :> Map("session_description" :> Leaf("given")))

MetadataArgs == {NoneT, GivenMetadata, IncompleteMetadata}

\* the conversion_options a caller may pass: none, empty, an added option, an
\* override of a default together with an added option, a value of the wrong type
OptionArgs ==
    {NoneT,
     EmptyDict,
     Map("Movie" :> Map("stub_test" :> Leaf("true"))),
     Map("Child" :> Map(("external_mode" :> Leaf("true")) @@ ("chunk_data" :> Leaf("false")))),
     Map("Movie" :> Map("stub_test" :> Leaf("yes")))}

\* the arguments of one run_conversion call
RunArgs ==
    [nwbfile_path : {NoneT, Leaf("out.nwb")},
     nwbfile : {NoneT, Handle("caller")},
     overwrite : BOOLEAN,
     save_to_file : BOOLEAN,
     metadata : MetadataArgs,
     conversion_options : OptionArgs]

NoArgs ==
    [nwbfile_path |-> NoneT, nwbfile |-> NoneT, overwrite |-> FALSE,
     save_to_file |-> TRUE, metadata |-> NoneT, conversion_options |-> NoneT]

\* no get_metadata() loop is being followed
MergeIdle ==
    /\ merge_objects = <<>>
    /\ interface_metadata = <<>>
    /\ merged_metadata = NoneT

\* no dict_deep_update grouping is being followed
UpdateIdle ==
    /\ operands = <<>>
    /\ grouped = NoneT

\* no interface's timestamps are being aligned
AlignIdle ==
    /\ align_class = "None"
    /\ source_timestamps = NoneT
    /\ timestamps = NoneT
    /\ align_calls = <<>>

\* no movie is being converted
MovieIdle ==
    /\ movie_file = NoneT
    /\ movie_args = NoneT
    /\ image_series = NoneT

\* no schema is being built
SchemaIdle ==
    /\ schema_objects = <<>>
    /\ interface_schemas = <<>>
    /\ merged_schema = NoneT
    /\ schema_pc = "idle"
    /\ class_schemas = <<>>
    /\ unroot_calls = <<>>

\* no TTL trace is being read
TTLIdle ==
    /\ ttl_trace = NoneT
    /\ ttl_threshold = NoneT
    /\ ttl_frames = NoneT

\* no CellExplorer interface is being followed
CellExplorerIdle ==
    /\ cell_session = NoneT
    /\ cell_properties = NoneT
    /\ cell_metadata = NoneT

\* no NIDQ interface is being followed
NIDQIdle ==
    /\ nidq_meta = NoneT
    /\ nidq_calls = <<>>

\* none of the schema, TTL, CellExplorer and NIDQ state is in use
LateIdle ==
    /\ SchemaIdle
    /\ TTLIdle
    /\ CellExplorerIdle
    /\ NIDQIdle

----------------------------------------------------------------------------
(* NWBConverter.__init__ *)

Init ==
    /\ source_data \in SourceConfigs
    /\ pc = "new"
    /\ err = "None"
    /\ data_interface_objects = <<>>
    /\ init_calls = <<>>
    /\ meta = NoMeta
    /\ args = NoArgs
    /\ metadata = NoneT
    /\ conversion_options_to_run = NoneT
    /\ nwbfile = NoneT
    /\ nwbfile_out = NoneT
    /\ acquired = 0
    /\ released = 0
    /\ calls = <<>>
    /\ written = [h \in HandleNames |-> <<>>]
    /\ ret = NoneT
    /\ group_order = <<"s0">>
    /\ md_log = <<>>
    /\ MergeIdle
    /\ UpdateIdle
    /\ AlignIdle
    /\ MovieIdle
    /\ LateIdle

runVars == <<args, metadata, conversion_options_to_run, nwbfile, nwbfile_out,
             acquired, released, calls, written, ret>>

\* the headers the constructors of the given interfaces may read
HeadersFor(names) ==
    IF "SpikeGLX" \in Range(names) THEN MetaHeaders ELSE {NoMeta}

\* Construct when the interfaces are instantiated before source_data is validated
Construct_ValidateLast ==
    /\ pc = "new"
    /\ LET names == InstantiatedNames(source_data)
       IN  /\ init_calls' = names
           /\ IF ~ValidSource(source_data)
              THEN /\ pc' = "ctor_failed"
                   /\ err' = "ValidationError"
                   /\ UNCHANGED <<data_interface_objects, meta, group_order>>
              ELSE /\ pc' = "ready"
                   /\ data_interface_objects' = names
                   /\ meta' \in HeadersFor(names)
                   /\ group_order' \in GroupOrders(meta')
                   /\ UNCHANGED err
    /\ UNCHANGED <<source_data, md_log>>
    /\ UNCHANGED <<args, metadata, conversion_options_to_run, nwbfile, nwbfile_out,
                   acquired, released, calls, written, ret>>
    /\ UNCHANGED auxVars

\* __init__: validate source_data, then call data_interface(**source_data[name])
\* for each registered name that is in source_data; the k-th constructor may
\* raise (k = 0: none does), and then data_interface_objects is never assigned
Construct ==
    /\ pc = "new"
    /\ IF ~ValidSource(source_data)
       THEN /\ pc' = "ctor_failed"
            /\ err' = "ValidationError"
            /\ UNCHANGED <<data_interface_objects, init_calls, meta, group_order>>
       ELSE LET names == InstantiatedNames(source_data)
            IN  \E k \in 0..Len(names) :
                    IF k = 0
                    THEN /\ pc' = "ready"
                         /\ init_calls' = names
                         /\ data_interface_objects' = names
                         /\ meta' \in HeadersFor(names)
                         /\ group_order' \in GroupOrders(meta')
                         /\ UNCHANGED err
                    ELSE /\ pc' = "ctor_failed"
                         /\ err' = "InterfaceInitError"
                         /\ init_calls' = SubSeq(names, 1, k)
                         /\ UNCHANGED <<data_interface_objects, meta, group_order>>
    /\ UNCHANGED <<source_data, md_log>>
    /\ UNCHANGED runVars
    /\ UNCHANGED auxVars

----------------------------------------------------------------------------
(* NWBConverter.run_conversion *)

ctorVars == <<source_data, data_interface_objects, init_calls, meta, group_order>>

\* RunAssertion with `and` mistaken for `or` in its first operand
RunAssertion_Or(a) ==
    (~a.save_to_file \/ a.nwbfile_path = NoneT) \/ a.nwbfile = NoneT

\* the assertion that opens run_conversion
RunAssertion(a) ==
    (~a.save_to_file /\ a.nwbfile_path = NoneT) \/ a.nwbfile = NoneT

\* run_conversion is entered: the assertion is evaluated
RunConversion ==
    /\ pc = "ready"
    /\ \E a \in RunArgs :
        /\ args' = a
        /\ nwbfile' = a.nwbfile
        /\ IF RunAssertion(a)
           THEN pc' = "metadata" /\ UNCHANGED err
           ELSE pc' = "failed" /\ err' = "AssertionError"
    /\ UNCHANGED <<metadata, conversion_options_to_run, nwbfile_out, acquired,
                   released, calls, written, ret, md_log>>
    /\ UNCHANGED ctorVars
    /\ UNCHANGED auxVars

\* if metadata is None: metadata = self.get_metadata()
ResolveMetadata ==
    /\ pc = "metadata"
    /\ IF args.metadata = NoneT
       THEN \E uuids \in UUIDDraws(data_interface_objects) :
                metadata' = get_metadata(data_interface_objects, meta, uuids, group_order)
       ELSE metadata' = args.metadata
    /\ pc' = "validate_metadata"
    /\ UNCHANGED <<args, err, conversion_options_to_run, nwbfile, nwbfile_out,
                   acquired, released, calls, written, ret, md_log>>
    /\ UNCHANGED ctorVars
    /\ UNCHANGED auxVars

\* self.validate_metadata(metadata=metadata)
ValidateMetadata ==
    /\ pc = "validate_metadata"
    /\ \E uuids \in UUIDDraws(data_interface_objects) :
        LET default_values == get_metadata(data_interface_objects, meta, uuids, group_order)
        IN  IF ValidMetadata(metadata, data_interface_objects, default_values)
            THEN pc' = "options" /\ UNCHANGED err
            ELSE pc' = "failed" /\ err' = "ValidationError"
    /\ UNCHANGED <<args, metadata, conversion_options_to_run, nwbfile, nwbfile_out,
                   acquired, released, calls, written, ret, md_log>>
    /\ UNCHANGED ctorVars
    /\ UNCHANGED auxVars

\* the local conversion_options after `if conversion_options is None`
ConversionOptionsOf(a) ==
    IF a.conversion_options = NoneT THEN EmptyDict ELSE a.conversion_options

\* the defaults with the caller's overrides deep-merged on top
ResolvedOptions(objects, a) ==
    dict_deep_update(get_conversion_options(objects), ConversionOptionsOf(a))

\* ResolveOptions when a failed validation does not abort the run
ResolveOptions_NoAbort ==
    /\ pc = "options"
    /\ conversion_options_to_run' = ResolvedOptions(data_interface_objects, args)
    /\ pc' = "open"
    /\ UNCHANGED <<args, err, metadata, nwbfile, nwbfile_out, acquired, released,
                   calls, written, ret, md_log>>
    /\ UNCHANGED <<source_data, data_interface_objects, init_calls, meta, group_order>>
    /\ UNCHANGED auxVars

\* conversion_options_to_run is computed and validated
ResolveOptions ==
    /\ pc = "options"
    /\ conversion_options_to_run' = ResolvedOptions(data_interface_objects, args)
    /\ IF ValidConversionOptions(conversion_options_to_run')
       THEN pc' = "open" /\ UNCHANGED err
       ELSE pc' = "failed" /\ err' = "ValidationError"
    /\ UNCHANGED <<args, metadata, nwbfile, nwbfile_out, acquired, released,
                   calls, written, ret, md_log>>
    /\ UNCHANGED ctorVars
    /\ UNCHANGED auxVars

\* the container make_or_load_nwbfile yields
make_or_load_nwbfile == Handle("file")

\* the container make_nwbfile_from_metadata builds
make_nwbfile_from_metadata == Handle("memory")

\* the leading parameters of the interface's run_conversion, after self
Signature(name) ==
    IF name = "SpikeGLX"
    THEN <<"nwbfile_path", "nwbfile", "metadata", "overwrite">>
    ELSE <<"nwbfile", "metadata">>

\* what a call run_conversion(*positional, **keywords, **options) binds to the
\* interface's nwbfile_path, nwbfile and metadata parameters
BindCall(name, positional, keywords, options) ==
    LET sig == Signature(name)
        bound(p) ==
            IF \E i \in DOMAIN positional : sig[i] = p
            THEN positional[CHOOSE i \in DOMAIN positional : sig[i] = p]
            ELSE IF p \in DOMAIN keywords THEN keywords[p] ELSE NoneT
    IN  [name |-> name,
         nwbfile_path |-> bound("nwbfile_path"),
         nwbfile |-> bound("nwbfile"),
         metadata |-> bound("metadata"),
         options |-> options]

\* the call the loop under `with make_or_load_nwbfile(...)` makes
PersistCall(name) ==
    BindCall(name, <<>>,
             ("nwbfile" :> nwbfile_out) @@ ("metadata" :> metadata),
             GetOrEmpty(conversion_options_to_run, name))

\* the call the loop of the else branch makes
InMemoryCall(name) ==
    BindCall(name, <<nwbfile, metadata>>, <<>>,
             GetOrEmpty(ConversionOptionsOf(args), name))

\* which of metadata / nwbfile goes into load_kwargs
LoadKwargs(a, nwb, path_exists) ==
    IF nwb = NoneT \/ (~path_exists /\ ~a.overwrite) \/ a.overwrite
    THEN "metadata" ELSE "nwbfile"

\* `with make_or_load_nwbfile(**load_kwargs) as nwbfile_out`: entering the
\* context acquires the output resource, or fails
AcquireResource ==
    /\ pc = "open"
    /\ args.save_to_file
    /\ \E path_exists \in BOOLEAN : LoadKwargs(args, nwbfile, path_exists) = "metadata"
    /\ \E opened \in BOOLEAN :
        IF opened
        THEN /\ acquired' = acquired + 1
             /\ nwbfile_out' = make_or_load_nwbfile
             /\ pc' = "loop"
             /\ UNCHANGED err
        ELSE /\ pc' = "failed"
             /\ err' = "IOError"
             /\ UNCHANGED <<acquired, nwbfile_out>>
    /\ UNCHANGED <<args, metadata, conversion_options_to_run, nwbfile, released,
                   calls, written, ret, md_log>>
    /\ UNCHANGED ctorVars
    /\ UNCHANGED auxVars

\* else branch: if nwbfile is None: nwbfile = make_nwbfile_from_metadata(...)
MakeNwbfile ==
    /\ pc = "open"
    /\ ~args.save_to_file
    /\ nwbfile' = IF nwbfile = NoneT THEN make_nwbfile_from_metadata ELSE nwbfile
    /\ pc' = "loop"
    /\ UNCHANGED <<args, err, metadata, conversion_options_to_run, nwbfile_out,
                   acquired, released, calls, written, ret, md_log>>
    /\ UNCHANGED ctorVars
    /\ UNCHANGED auxVars

\* what a completed call leaves in the containers: the interface writes into
\* the container bound to its nwbfile parameter
WriteInto(w, call) ==
    IF call.nwbfile.kind = "handle"
    THEN [w EXCEPT ![call.nwbfile.name] = Append(@, call.name)]
    ELSE w

\* AfterRaise when the with block is left without running the release
AfterRaise_NoRelease == "failed"

\* AfterRaise when the loop swallows the exception and goes on
AfterRaise_Continue == "loop"

\* where control goes when an interface's run_conversion raises
AfterRaise == IF args.save_to_file THEN "raised" ELSE "failed"

\* one iteration of the loop over data_interface_objects.items(): the next
\* interface's run_conversion is called, and completes or raises
RunInterface ==
    /\ pc = "loop"
    /\ Len(calls) < Len(data_interface_objects)
    /\ LET name == data_interface_objects[Len(calls) + 1]
           call == IF args.save_to_file THEN PersistCall(name) ELSE InMemoryCall(name)
       IN  /\ calls' = Append(calls, call)
           /\ \E raises \in BOOLEAN :
                IF raises
                THEN /\ pc' = AfterRaise
                     /\ err' = "InterfaceWriteError"
                     /\ UNCHANGED written
                ELSE /\ pc' = "loop"
                     /\ written' = WriteInto(written, call)
                     /\ UNCHANGED err
    /\ UNCHANGED <<args, metadata, conversion_options_to_run, nwbfile, nwbfile_out,
                   acquired, released, ret, md_log>>
    /\ UNCHANGED ctorVars
    /\ UNCHANGED auxVars

\* the with block is left, normally after the last interface or by an
\* exception: the context manager's release routine runs, an exception in
\* flight keeps propagating
ReleaseResource ==
    /\ \/ pc = "raised"
       \/ /\ pc = "loop"
          /\ args.save_to_file
          /\ Len(calls) = Len(data_interface_objects)
    /\ released' = released + 1
    /\ pc' = IF err = "None" THEN "return" ELSE "failed"
    /\ UNCHANGED <<args, err, metadata, conversion_options_to_run, nwbfile,
                   nwbfile_out, acquired, calls, written, ret, md_log>>
    /\ UNCHANGED ctorVars
    /\ UNCHANGED auxVars

\* Return when the container yielded to the loop is returned
Return_Yielded ==
    /\ \/ pc = "return"
       \/ /\ pc = "loop"
          /\ ~args.save_to_file
          /\ Len(calls) = Len(data_interface_objects)
    /\ ret' = IF args.save_to_file THEN nwbfile_out ELSE nwbfile
    /\ pc' = "done"
    /\ UNCHANGED <<args, err, metadata, conversion_options_to_run, nwbfile,
                   nwbfile_out, acquired, released, calls, written, md_log>>
    /\ UNCHANGED <<source_data, data_interface_objects, init_calls, meta, group_order>>
    /\ UNCHANGED auxVars

\* return nwbfile
Return ==
    /\ \/ pc = "return"
       \/ /\ pc = "loop"
          /\ ~args.save_to_file
          /\ Len(calls) = Len(data_interface_objects)
    /\ ret' = nwbfile
    /\ pc' = "done"
    /\ UNCHANGED <<args, err, metadata, conversion_options_to_run, nwbfile,
                   nwbfile_out, acquired, released, calls, written, md_log>>
    /\ UNCHANGED ctorVars
    /\ UNCHANGED auxVars

Next ==
    \/ Construct
    \/ RunConversion
    \/ ResolveMetadata
    \/ ValidateMetadata
    \/ ResolveOptions
    \/ AcquireResource
    \/ MakeNwbfile
    \/ RunInterface
    \/ ReleaseResource
    \/ Return

Spec == Init /\ [][Next]_vars

----------------------------------------------------------------------------
(* Repeated get_metadata() calls on converters built from one configuration *)

\* the number of get_metadata() calls followed
MaxMetadataCalls == 2

\* converter.get_metadata() is called and its result recorded
GetMetadata ==
    /\ pc = "ready"
    /\ Len(md_log) < MaxMetadataCalls
    /\ \E uuids \in UUIDDraws(data_interface_objects) :
        md_log' = Append(md_log,
                         get_metadata(data_interface_objects, meta, uuids, group_order))
    /\ UNCHANGED <<pc, err>>
    /\ UNCHANGED runVars
    /\ UNCHANGED ctorVars
    /\ UNCHANGED auxVars

\* a second converter is built from the same source configuration, possibly
\* in another process: its interfaces read the same files, and set(group_name)
\* iterates in that process's order
Rebuild ==
    /\ pc = "ready"
    /\ group_order' \in GroupOrders(meta)
    /\ UNCHANGED <<source_data, data_interface_objects, init_calls, meta, pc, err, md_log>>
    /\ UNCHANGED runVars
    /\ UNCHANGED auxVars

NextMetadata ==
    \/ Construct
    \/ GetMetadata
    \/ Rebuild

SpecMetadata == Init /\ [][NextMetadata]_vars

----------------------------------------------------------------------------
(* One NWBConverter.get_metadata() call, followed interface by interface, on *)
(* a converter subclass that registers SpikeGLXRecordingInterface twice (two *)
(* probes), CellExplorerSortingInterface and MovieInterface                  *)

\* no converter is being constructed or run
ConverterIdle ==
    /\ source_data = EmptyDict
    /\ pc = "new"
    /\ err = "None"
    /\ data_interface_objects = <<>>
    /\ init_calls = <<>>
    /\ meta = NoMeta
    /\ args = NoArgs
    /\ metadata = NoneT
    /\ conversion_options_to_run = NoneT
    /\ nwbfile = NoneT
    /\ nwbfile_out = NoneT
    /\ acquired = 0
    /\ released = 0
    /\ calls = <<>>
    /\ written = [h \in HandleNames |-> <<>>]
    /\ ret = NoneT
    /\ group_order = <<"s0">>
    /\ md_log = <<>>

\* what CellExplorerSortingInterface finds next to its file: whether the
\* .spikes.cellinfo.mat file is there, the fields of its `spikes` struct, and
\* whether a .CellClass.cellinfo.mat file with a `label` field is there
CellExplorerSessions ==
    [cellinfo : BOOLEAN,
     cell_info_fields : {{}, {"cluID"}, {"cluID", "shankID", "region"}},
     celltype : BOOLEAN]

NoSession == [cellinfo |-> FALSE, cell_info_fields |-> {}, celltype |-> FALSE]

\* dict(name=..., description=...)
UnitProperty(name, description) ==
    Map(("name" :> Leaf(name)) @@ ("description" :> Leaf(description)))

\* CellExplorerSortingInterface.get_metadata()
CellExplorerMetadata(s) ==
    LET has(f) == s.cellinfo /\ f \in s.cell_info_fields
        unit_properties ==
            (IF has("cluID")
             THEN <<UnitProperty("clu_id", "0-indexed id of cluster identified from the shank.")>>
             ELSE <<>>)
            \o (IF has("shankID")
                THEN <<UnitProperty("group_id", "The electrode group ID that each unit was identified by.")>>
                ELSE <<>>)
            \o (IF has("region")
                THEN <<UnitProperty("location", "Brain region where each unit was detected.")>>
                ELSE <<>>)
            \o (IF s.celltype
                THEN <<UnitProperty("cell_type", "Type of cell this has been classified as.")>>
                ELSE <<>>)
    IN  Map(("NWBFile" :> Map("session_id" :> Leaf("session-1")))
            @@ ("Ecephys" :> Map("UnitProperties" :> Arr(unit_properties))))

\* an instantiated interface: its class and what its constructor read
SpikeGLXObjects == {[cls |-> "SpikeGLX", meta |-> m, session |-> NoSession] : m \in MetaHeaders}

CellExplorerObjects ==
    {[cls |-> "CellExplorer", meta |-> NoMeta, session |-> s] : s \in CellExplorerSessions}

MovieObjects == {[cls |-> "Movie", meta |-> NoMeta, session |-> NoSession]}

\* the interface is left out of source_data, or instantiated as one of S
Optional(S) == {<<>>} \cup {<<x>> : x \in S}

\* the data_interface_objects the constructor may build, in the insertion
\* order of data_interface_classes: probe 0, probe 1, CellExplorer, Movie
MergeConverters ==
    {a \o b \o c \o d : a \in Optional(SpikeGLXObjects), b \in Optional(SpikeGLXObjects),
                        c \in Optional(CellExplorerObjects), d \in Optional(MovieObjects)}

\* interface.get_metadata() of an instantiated interface
InterfaceMetadataOf(interface, uuid, groups) ==
    IF interface.cls = "SpikeGLX" THEN SpikeGLXMetadata(interface.meta, uuid, groups)
    ELSE IF interface.cls = "CellExplorer" THEN CellExplorerMetadata(interface.session)
    ELSE BaseMetadata(uuid)

InitMerge ==
    /\ ConverterIdle
    /\ UpdateIdle
    /\ AlignIdle
    /\ MovieIdle
    /\ LateIdle
    /\ merge_objects \in MergeConverters
    /\ interface_metadata = <<>>
    /\ merged_metadata = NoneT

\* metadata = get_default_nwbfile_metadata()
StartGetMetadata ==
    /\ merged_metadata = NoneT
    /\ merged_metadata' = get_default_nwbfile_metadata
    /\ UNCHANGED <<merge_objects, interface_metadata>>
    /\ UNCHANGED notMergeVars

\* MergeInterface with metadata.update(interface_metadata) in place of the
\* deep update
MergeInterface_Shallow ==
    /\ merged_metadata # NoneT
    /\ Len(interface_metadata) < Len(merge_objects)
    /\ LET interface == merge_objects[Len(interface_metadata) + 1]
       IN  \E uuid \in UUIDs : \E groups \in GroupOrders(interface.meta) :
            LET im == InterfaceMetadataOf(interface, uuid, groups)
            IN  /\ interface_metadata' = Append(interface_metadata, im)
                /\ merged_metadata' = Map(im.kids @@ merged_metadata.kids)
    /\ UNCHANGED merge_objects
    /\ UNCHANGED notMergeVars

\* MergeInterface with the arguments of dict_deep_update exchanged
MergeInterface_BaseWins ==
    /\ merged_metadata # NoneT
    /\ Len(interface_metadata) < Len(merge_objects)
    /\ LET interface == merge_objects[Len(interface_metadata) + 1]
       IN  \E uuid \in UUIDs : \E groups \in GroupOrders(interface.meta) :
            LET im == InterfaceMetadataOf(interface, uuid, groups)
            IN  /\ interface_metadata' = Append(interface_metadata, im)
                /\ merged_metadata' = dict_deep_update(im, merged_metadata)
    /\ UNCHANGED merge_objects
    /\ UNCHANGED notMergeVars

\* one iteration of `for interface in self.data_interface_objects.values()`:
\* interface_metadata = interface.get_metadata()
\* metadata = dict_deep_update(metadata, interface_metadata)
MergeInterface ==
    /\ merged_metadata # NoneT
    /\ Len(interface_metadata) < Len(merge_objects)
    /\ LET interface == merge_objects[Len(interface_metadata) + 1]
       IN  \E uuid \in UUIDs : \E groups \in GroupOrders(interface.meta) :
            LET im == InterfaceMetadataOf(interface, uuid, groups)
            IN  /\ interface_metadata' = Append(interface_metadata, im)
                /\ merged_metadata' = dict_deep_update(merged_metadata, im)
    /\ UNCHANGED merge_objects
    /\ UNCHANGED notMergeVars

NextMerge ==
    \/ StartGetMetadata
    \/ MergeInterface

SpecMerge == InitMerge /\ [][NextMerge]_vars

----------------------------------------------------------------------------
(* dict_deep_update applied to three metadata trees in both groupings *)

Scalars == {Leaf("A"), Leaf("B")}

Arrays == {Arr(<<Leaf("A")>>)}

\* the mappings from some of the keys to values
MapsOver(keys, values) ==
    {Map(f) : f \in UNION {[S -> values] : S \in SUBSET keys}}

\* a section of a metadata tree: leaves under some of two keys
Sections == MapsOver({"Device", "ElectrodeGroup"}, Scalars \cup Arrays)

\* the metadata trees merged: under the one top-level key a scalar, a list or
\* a section, or nothing at all
MetadataTrees == MapsOver({"Ecephys"}, Scalars \cup Arrays \cup Sections)

InitUpdate ==
    /\ ConverterIdle
    /\ MergeIdle
    /\ AlignIdle
    /\ MovieIdle
    /\ LateIdle
    /\ operands \in MetadataTrees \X MetadataTrees \X MetadataTrees
    /\ grouped = [left |-> NoneT, right |-> NoneT]

\* dict_deep_update(dict_deep_update(a, b), c)
GroupLeft ==
    /\ grouped.left = NoneT
    /\ grouped' = [grouped EXCEPT !.left =
                      dict_deep_update(dict_deep_update(operands[1], operands[2]),
                                       operands[3])]
    /\ UNCHANGED operands
    /\ UNCHANGED notUpdateVars

\* dict_deep_update(a, dict_deep_update(b, c))
GroupRight ==
    /\ grouped.right = NoneT
    /\ grouped' = [grouped EXCEPT !.right =
                      dict_deep_update(operands[1],
                                       dict_deep_update(operands[2], operands[3]))]
    /\ UNCHANGED operands
    /\ UNCHANGED notUpdateVars

NextUpdate ==
    \/ GroupLeft
    \/ GroupRight

SpecUpdate == InitUpdate /\ [][NextUpdate]_vars

----------------------------------------------------------------------------
(* The timestamp methods of one data interface: a recording interface, which *)
(* exposes temporal data, or a BaseSegmentationExtractorInterface, which has *)
(* no timestamp concept. Times are whole ticks of the session clock.         *)

\* the number of timestamp method calls followed
MaxAlignCalls == 3

\* the outcome of a method: the error it raised, or the value it returned
Raised(e) == [error |-> e, value |-> NoneT]

Returned(v) == [error |-> "None", value |-> v]

\* the body shared by the three abstract methods of BaseDataInterface and
\* their overrides in BaseSegmentationExtractorInterface
NotImplemented == Raised("NotImplementedError")

\* BaseSegmentationExtractorInterface.align_timestamps when it stores the
\* array instead of raising
Segmentation_align_timestamps_Stores(aligned_timestamps) == Returned(aligned_timestamps)

\* BaseSegmentationExtractorInterface.align_timestamps
Segmentation_align_timestamps(aligned_timestamps) == NotImplemented

\* get_original_timestamps when it returns the timestamps held in memory
get_original_timestamps_Cached(self) ==
    IF self.cls = "Segmentation" THEN NotImplemented ELSE Returned(self.timestamps)

\* get_original_timestamps(): re-read from the underlying source
get_original_timestamps(self) ==
    IF self.cls = "Segmentation" THEN NotImplemented ELSE Returned(self.source)

\* get_timestamps(): the current timestamps
get_timestamps(self) ==
    IF self.cls = "Segmentation" THEN NotImplemented ELSE Returned(self.timestamps)

\* align_timestamps(aligned_timestamps): the value is what the interface's
\* current timestamps become
align_timestamps(self, aligned_timestamps) ==
    IF self.cls = "Segmentation" THEN Segmentation_align_timestamps(aligned_timestamps)
    ELSE Returned(aligned_timestamps)

\* align_starting_time when the offset is added to the original timestamps
align_starting_time_FromOriginal(self, starting_time) ==
    LET got == get_original_timestamps(self)
    IN  IF got.error # "None" THEN got
        ELSE align_timestamps(self, [i \in DOMAIN got.value |-> got.value[i] + starting_time])

\* align_starting_time(starting_time):
\* self.align_timestamps(aligned_timestamps=self.get_timestamps() + starting_time)
align_starting_time(self, starting_time) ==
    LET got == get_timestamps(self)
    IN  IF got.error # "None" THEN got
        ELSE align_timestamps(self, [i \in DOMAIN got.value |-> got.value[i] + starting_time])

\* np.interp(x, xp, fp) for one x and increasing xp: fp[1] left of xp, fp[n]
\* right of it, and on the segment xp[j] <= x < xp[j+1] the value
\* slope * (x - xp[j]) + fp[j]
interp(x, xp, fp) ==
    LET n == Len(xp)
    IN  IF x < xp[1] THEN fp[1]
        ELSE IF x >= xp[n] THEN fp[n]
        ELSE LET j == CHOOSE k \in 1..(n - 1) : xp[k] <= x /\ x < xp[k + 1]
             IN  ((fp[j + 1] - fp[j]) * (x - xp[j])) \div (xp[j + 1] - xp[j]) + fp[j]

\* align_by_interpolation with xp and fp exchanged in the call of np.interp
align_by_interpolation_Exchanged(self, unaligned_timestamps, aligned_timestamps) ==
    LET got == get_timestamps(self)
    IN  IF got.error # "None" THEN got
        ELSE align_timestamps(self,
                [i \in DOMAIN got.value |->
                    interp(got.value[i], aligned_timestamps, unaligned_timestamps)])

\* align_by_interpolation(unaligned_timestamps, aligned_timestamps)
align_by_interpolation(self, unaligned_timestamps, aligned_timestamps) ==
    LET got == get_timestamps(self)
    IN  IF got.error # "None" THEN got
        ELSE align_timestamps(self,
                [i \in DOMAIN got.value |->
                    interp(got.value[i], unaligned_timestamps, aligned_timestamps)])

\* the timestamps a source may hold, non-decreasing
OriginalTimestamps == {<<0, 1, 2>>, <<0, 5, 10>>, <<3, 3, 12>>}

\* the arrays a caller may pass to align_timestamps
AlignedArrays == {<<10, 20, 30>>, <<2, 1, 0>>, <<7>>}

\* the offsets a caller may pass to align_starting_time
StartingTimes == {5, -1}

\* the reference pairs a caller may pass to align_by_interpolation: the
\* unaligned references increase, and every slope is a whole number
ReferencePairs ==
    {[unaligned |-> <<0, 10>>, aligned |-> <<100, 110>>],
     [unaligned |-> <<0, 2, 4>>, aligned |-> <<0, 6, 8>>],
     [unaligned |-> <<0, 10>>, aligned |-> <<110, 100>>]}

\* the interface the methods are called on
Self == [cls |-> align_class, source |-> source_timestamps, timestamps |-> timestamps]

InitAlign ==
    /\ ConverterIdle
    /\ MergeIdle
    /\ UpdateIdle
    /\ MovieIdle
    /\ LateIdle
    /\ align_class \in {"Recording", "Segmentation"}
    /\ IF align_class = "Recording"
       THEN source_timestamps \in OriginalTimestamps /\ timestamps = source_timestamps
       ELSE source_timestamps = NoneT /\ timestamps = NoneT
    /\ align_calls = <<>>

\* the record of one call
Call(op, arguments, outcome) ==
    [op |-> op, arguments |-> arguments, before |-> timestamps,
     error |-> outcome.error, value |-> outcome.value]

\* a method that only reads is called
ReadCall(op, outcome) ==
    /\ Len(align_calls) < MaxAlignCalls
    /\ align_calls' = Append(align_calls, Call(op, <<>>, outcome))
    /\ UNCHANGED <<align_class, source_timestamps, timestamps>>
    /\ UNCHANGED notAlignVars

\* an aligning method is called: it raises, or the interface's current
\* timestamps become the array handed to align_timestamps
AlignCall(op, arguments, outcome) ==
    /\ Len(align_calls) < MaxAlignCalls
    /\ align_calls' = Append(align_calls, Call(op, arguments, outcome))
    /\ timestamps' = IF outcome.error = "None" THEN outcome.value ELSE timestamps
    /\ UNCHANGED <<align_class, source_timestamps>>
    /\ UNCHANGED notAlignVars

GetOriginalTimestamps == ReadCall("get_original_timestamps", get_original_timestamps(Self))

GetTimestamps == ReadCall("get_timestamps", get_timestamps(Self))

AlignTimestamps ==
    \E a \in AlignedArrays :
        AlignCall("align_timestamps", <<a>>, align_timestamps(Self, a))

AlignStartingTime ==
    \E s \in StartingTimes :
        AlignCall("align_starting_time", <<s>>, align_starting_time(Self, s))

AlignByInterpolation ==
    \E r \in ReferencePairs :
        AlignCall("align_by_interpolation", <<r.unaligned, r.aligned>>,
                  align_by_interpolation(Self, r.unaligned, r.aligned))

NextAlign ==
    \/ GetOriginalTimestamps
    \/ GetTimestamps
    \/ AlignTimestamps
    \/ AlignStartingTime
    \/ AlignByInterpolation

SpecAlign == InitAlign /\ [][NextAlign]_vars

----------------------------------------------------------------------------
(* One MovieInterface.run_conversion call. Times are whole ticks of 1/20 s. *)

\* the ticks in one second
TicksPerSecond == 20

\* count_max of a stub run
StubCountMax == 10

\* the times of a movie's frames: the first frame at tick 0 or 1, every next
\* frame 1, 2 or 3 ticks after the one before
RECURSIVE FrameTimes(_)
FrameTimes(n) ==
    IF n = 1 THEN {<<0>>, <<1>>}
    ELSE {Append(s, s[Len(s)] + gap) : s \in FrameTimes(n - 1), gap \in 1..3}

\* the longest movie whose frame times are followed in every combination,
\* in frames
MaxFrames == 4

\* the longest movie followed, in frames: one frame more than a stub run
\* writes
LongestMovie == StubCountMax + 1

\* the times of the frames of the movies a stub run may truncate: one
\* tick apart, or one tick apart with the last frame one tick late
LongFrameTimes ==
    UNION {{[i \in 1..n |-> i - 1], [i \in 1..n |-> IF i = n THEN i ELSE i - 1]} :
                n \in StubCountMax..LongestMovie}

\* the movie files: the times of the frames, and the frame rate in the header
MovieFiles ==
    [frame_times : UNION {FrameTimes(n) : n \in 2..MaxFrames} \cup LongFrameTimes,
     fps : {10, 20}]

\* get_movie_timestamps(movie_file)
get_movie_timestamps(file) == file.frame_times

\* get_movie_fps(movie_file)
get_movie_fps(file) == file.fps

\* check_regular_timestamps(ts): the intervals between consecutive timestamps
\* take exactly one value
check_regular_timestamps(ts) ==
    Cardinality({ts[i + 1] - ts[i] : i \in 1..(Len(ts) - 1)}) = 1

\* the metadata a caller may pass: without an ImageSeries entry, or with one
\* under the acquisition module
MovieMetadata ==
    {EmptyDict,
     Map("acquisition" :> Map("ImageSeries" :> Map("description" :> Leaf("Side camera."))))}

\* a float argument, in ticks
Seconds(ticks) == [kind |-> "float", ticks |-> ticks]

\* the arguments of one MovieInterface.run_conversion call
MovieArgs ==
    [metadata : MovieMetadata,
     stub_test : BOOLEAN,
     external_mode : BOOLEAN,
     starting_time : {NoneT, Seconds(0), Seconds(4)},
     chunk_data : BOOLEAN,
     module_name : {NoneT, Leaf("behavior")}]

InitMovie ==
    /\ ConverterIdle
    /\ MergeIdle
    /\ UpdateIdle
    /\ AlignIdle
    /\ LateIdle
    /\ movie_file \in MovieFiles
    /\ movie_args \in MovieArgs
    /\ image_series = NoneT

\* the timing keywords of the ImageSeries: starting_time and rate when the
\* timestamps are regular, the timestamps otherwise
TimingKwargs(file, starting_time, movie_timestamps) ==
    IF check_regular_timestamps(movie_timestamps)
    THEN ("starting_time" :> starting_time) @@ ("rate" :> get_movie_fps(file))
    ELSE ("timestamps" :> movie_timestamps)

\* the data keywords of the ImageSeries: a link to the file, or the frames
\* read from it, through a chunk iterator or as one array
DataKwargs(a, count_max, total_frames, enough_memory) ==
    IF a.external_mode
    THEN ("format" :> Leaf("external")) @@ ("external_file" :> <<Leaf("/data/movie.avi")>>)
    ELSE LET chunk_data == a.chunk_data \/ ~enough_memory
             frames == IF count_max < total_frames THEN count_max ELSE total_frames
         IN  "data" :> [frames |-> frames, chunked |-> chunk_data]

\* MovieInterface.run_conversion(nwbfile, metadata, ...)
MovieRunConversion ==
    /\ image_series = NoneT
    /\ \E enough_memory \in BOOLEAN :
        LET a == movie_args
            \* np.inf: more than any movie holds
            count_max == IF a.stub_test THEN StubCountMax ELSE LongestMovie + 1
            starting_time == IF a.starting_time = NoneT THEN 0 ELSE a.starting_time.ticks
            frame_times == get_movie_timestamps(movie_file)
            movie_timestamps == [i \in DOMAIN frame_times |-> starting_time + frame_times[i]]
            nwb_module == IF a.module_name = NoneT THEN "acquisition" ELSE a.module_name.val
            image_series_kwargs ==
                ("name" :> Leaf("Video: movie"))
                @@ ("description" :> Leaf("Video recorded by camera."))
                @@ ("unit" :> Leaf("Frames"))
            updated ==
                IF nwb_module \in Keys(a.metadata)
                   /\ "ImageSeries" \in Keys(a.metadata.kids[nwb_module])
                THEN a.metadata.kids[nwb_module].kids["ImageSeries"].kids @@ image_series_kwargs
                ELSE image_series_kwargs
        IN  image_series' =
                [container |-> nwb_module,
                 kwargs |-> DataKwargs(a, count_max, Len(movie_timestamps), enough_memory)
                            @@ TimingKwargs(movie_file, starting_time, movie_timestamps)
                            @@ updated]
    /\ UNCHANGED <<movie_file, movie_args>>
    /\ UNCHANGED notMovieVars

NextMovie == MovieRunConversion

SpecMovie == InitMovie /\ [][NextMovie]_vars

----------------------------------------------------------------------------
(* One NWBConverter.get_metadata_schema() call, followed interface by       *)
(* interface, on converters that may hold a SpikeGLXRecordingInterface, a   *)
(* segmentation interface and a MovieInterface; and the schema classmethods *)

\* the tree with `key` set to `value`
With(t, key, value) == Map((key :> value) @@ t.kids)

\* the tree after t.pop(key)
Without(t, key) == Map([k \in Keys(t) \ {key} |-> t.kids[k]])

\* get_schema_from_hdmf_class(Device)
DeviceSchema ==
    get_base_schema(FALSE, "None", "None", <<"name">>,
                    ("name" :> TypedProperty("string"))
                    @@ ("description" :> TypedProperty("string"))
                    @@ ("manufacturer" :> TypedProperty("string")))

\* the schema of one RoiResponseSeries, as get_schema_from_hdmf_class nests it
RoiResponseSeriesSchema ==
    get_base_schema(FALSE, "None", "None", <<"name">>,
                    ("name" :> TypedProperty("string"))
                    @@ ("description" :> TypedProperty("string")))

\* get_schema_from_hdmf_class(Fluorescence)
FluorescenceSchema ==
    get_base_schema(FALSE, "None", "None", <<"roi_response_series">>,
                    ("name" :> TypedProperty("string"))
                    @@ ("roi_response_series" :>
                            Map(("type" :> Leaf("array"))
                                @@ ("items" :> RoiResponseSeriesSchema)
                                @@ ("minItems" :> Leaf("1"))
                                @@ ("maxItems" :> Leaf("1")))))

\* get_schema_from_hdmf_class(ImageSegmentation)
ImageSegmentationSchema ==
    get_base_schema(FALSE, "None", "None", <<>>,
                    ("name" :> TypedProperty("string"))
                    @@ ("plane_segmentations" :> TypedProperty("array")))

\* get_schema_from_hdmf_class(ImagingPlane)
ImagingPlaneSchema ==
    get_base_schema(FALSE, "None", "None", <<"name">>,
                    ("name" :> TypedProperty("string"))
                    @@ ("description" :> TypedProperty("string")))

\* get_schema_from_hdmf_class(TwoPhotonSeries)
TwoPhotonSeriesSchema ==
    get_base_schema(FALSE, "None", "None", <<"name", "imaging_plane">>,
                    ("name" :> TypedProperty("string"))
                    @@ ("imaging_plane" :> TypedProperty("string")))

\* what get_nwb_segmentation_metadata finds for one kind of trace: no entry,
\* a name only, or a name and one response series
TraceEntries == {"absent", "named", "series"}

\* the traces a segmentation extractor may hold
OphysTraces == [fluorescence : TraceEntries, dff : TraceEntries]

NoOphys == [fluorescence |-> "absent", dff |-> "absent"]

\* the metadata entry of one kind of trace
TraceMetadata(entry, name, series) ==
    IF entry = "absent" THEN <<>>
    ELSE name :> Map(("name" :> Leaf(name))
                     @@ (IF entry = "series"
                         THEN "roi_response_series" :> Arr(<<Map("name" :> Leaf(series))>>)
                         ELSE <<>>))

\* get_nwb_segmentation_metadata(segmentation_extractor)
get_nwb_segmentation_metadata(traces) ==
    Map("Ophys" :>
        Map(("Device" :> Arr(<<Map("name" :> Leaf("Microscope"))>>))
            @@ ("ImageSegmentation" :> Map("name" :> Leaf("ImageSegmentation")))
            @@ TraceMetadata(traces.fluorescence, "Fluorescence", "RoiResponseSeries")
            @@ TraceMetadata(traces.dff, "DfOverF", "DfOverFSeries")))

\* BaseSegmentationExtractorInterface.get_metadata(): metadata.update(...) of
\* the base skeleton
SegmentationMetadata(traces, uuid) ==
    Map(get_nwb_segmentation_metadata(traces).kids @@ BaseMetadata(uuid).kids)

\* BaseSegmentationExtractorInterface.get_metadata_schema() when Ophys is
\* made required and never added to the properties
SegmentationMetadataSchema_NoOphysProperty(defaults) ==
    With(BaseMetadataSchema, "required", Arr(<<Leaf("Ophys")>>))

\* BaseSegmentationExtractorInterface.get_metadata_schema(); defaults is what
\* its call of self.get_metadata() returned
SegmentationMetadataSchema(defaults) ==
    LET items == With(RoiResponseSeriesSchema, "required", Arr(<<>>))
        roi_response_series ==
            Without(With(FluorescenceSchema.kids["properties"].kids["roi_response_series"],
                         "items", items),
                    "maxItems")
        fluorescence ==
            With(FluorescenceSchema, "properties",
                 With(FluorescenceSchema.kids["properties"],
                      "roi_response_series", roi_response_series))
        ophys_properties ==
            ("Device" :> Map(("type" :> Leaf("array")) @@ ("minItems" :> Leaf("1"))
                             @@ ("items" :> DeviceSchema)))
            @@ ("Fluorescence" :> fluorescence)
            @@ ("ImageSegmentation" :>
                    With(ImageSegmentationSchema, "additionalProperties", Leaf("true")))
            @@ ("ImagingPlane" :> With(ImagingPlaneSchema, "type", Leaf("array")))
            @@ ("TwoPhotonSeries" :> With(TwoPhotonSeriesSchema, "type", Leaf("array")))
            @@ ("DfOverF" :> SameObject("Fluorescence"))
        ophys ==
            With(With(get_base_schema(FALSE, "None", "None", <<>>, <<>>),
                      "properties", Map(ophys_properties)),
                 "required", Arr(<<Leaf("Device"), Leaf("ImageSegmentation")>>))
        metadata_schema ==
            With(With(BaseMetadataSchema, "required", Arr(<<Leaf("Ophys")>>)),
                 "properties",
                 With(BaseMetadataSchema.kids["properties"], "Ophys", ophys))
    IN  fill_defaults(metadata_schema, defaults)

\* the headers of the SpikeGLX interfaces followed here
SchemaHeaders == {m \in MetaHeaders : ~m.prb /\ m.shanks = 1}

\* the instantiated interfaces a converter may hold
SchemaInterfaces ==
    {[cls |-> "SpikeGLX", meta |-> m, ophys |-> NoOphys] : m \in SchemaHeaders}
    \cup {[cls |-> "Segmentation", meta |-> NoMeta, ophys |-> o] : o \in OphysTraces}
    \cup {[cls |-> "Movie", meta |-> NoMeta, ophys |-> NoOphys]}

\* the longest converter followed, in interfaces
MaxInterfaces == 3

\* self.data_interface_objects of the converters followed: at most one
\* interface of each class, in the order their subclass registers them
SchemaConverters ==
    {s \in UNION {[1..n -> SchemaInterfaces] : n \in 0..MaxInterfaces} :
        \A i, j \in DOMAIN s : i # j => s[i].cls # s[j].cls}

\* interface.get_metadata() of an instantiated interface
ObjectMetadata(interface, uuid) ==
    IF interface.cls = "SpikeGLX" THEN SpikeGLXMetadata(interface.meta, uuid, <<"s0">>)
    ELSE IF interface.cls = "Segmentation" THEN SegmentationMetadata(interface.ophys, uuid)
    ELSE BaseMetadata(uuid)

\* interface.get_metadata_schema() of an instantiated interface
ObjectMetadataSchema(interface, uuid) ==
    IF interface.cls = "SpikeGLX" THEN SpikeGLXMetadataSchema
    ELSE IF interface.cls = "Segmentation"
         THEN SegmentationMetadataSchema(ObjectMetadata(interface, uuid))
         ELSE BaseMetadataSchema

\* the loop of NWBConverter.get_metadata over objects[i..]
RECURSIVE MergeObjectMetadata(_, _, _, _)
MergeObjectMetadata(md, objects, i, uuids) ==
    IF i > Len(objects) THEN md
    ELSE MergeObjectMetadata(dict_deep_update(md, ObjectMetadata(objects[i], uuids[i])),
                             objects, i + 1, uuids)

\* the schemas handed to unroot_schema
UnrootArguments ==
    {BaseMetadataSchema, SpikeGLXMetadataSchema, get_source_schema,
     get_conversion_options_schema, InterfaceSourceSchema("SpikeGLX"),
     SegmentationMetadataSchema(EmptyDict)}

\* the longest chain of unroot_schema calls followed
MaxUnrootCalls == 2

InitSchema ==
    /\ ConverterIdle
    /\ MergeIdle
    /\ UpdateIdle
    /\ AlignIdle
    /\ MovieIdle
    /\ TTLIdle
    /\ CellExplorerIdle
    /\ NIDQIdle
    /\ schema_objects \in SchemaConverters
    /\ interface_schemas = <<>>
    /\ merged_schema = NoneT
    /\ schema_pc = "idle"
    /\ class_schemas = <<>>
    /\ unroot_calls = <<>>

\* metadata_schema = get_base_schema(id_=..., root=True, required=["NWBFile"], ...)
StartGetMetadataSchema ==
    /\ schema_pc = "idle"
    /\ merged_schema' =
            get_base_schema(TRUE, "metadata.schema.json", "Metadata", <<"NWBFile">>,
                            ("NWBFile" :> get_schema_for_NWBFile)
                            @@ ("Subject" :> SubjectSchema))
    /\ schema_pc' = "merging"
    /\ UNCHANGED <<schema_objects, interface_schemas, class_schemas, unroot_calls>>
    /\ UNCHANGED notSchemaVars

\* one iteration of `for data_interface in self.data_interface_objects.values()`
MergeInterfaceSchema ==
    /\ schema_pc = "merging"
    /\ Len(interface_schemas) < Len(schema_objects)
    /\ \E uuid \in UUIDs :
        LET data_interface == schema_objects[Len(interface_schemas) + 1]
            returned == ObjectMetadataSchema(data_interface, uuid)
            interface_schema == unroot_schema(returned)
        IN  /\ interface_schemas' = Append(interface_schemas, returned)
            /\ merged_schema' = dict_deep_update(merged_schema, interface_schema)
    /\ UNCHANGED <<schema_objects, schema_pc, class_schemas, unroot_calls>>
    /\ UNCHANGED notSchemaVars

\* default_values = self.get_metadata(); fill_defaults(metadata_schema,
\* default_values); return metadata_schema
FillDefaults ==
    /\ schema_pc = "merging"
    /\ Len(interface_schemas) = Len(schema_objects)
    /\ \E uuids \in [1..Len(schema_objects) -> UUIDs] :
        LET default_values ==
                MergeObjectMetadata(get_default_nwbfile_metadata, schema_objects, 1, uuids)
        IN  merged_schema' = fill_defaults(merged_schema, default_values)
    /\ schema_pc' = "done"
    /\ UNCHANGED <<schema_objects, interface_schemas, class_schemas, unroot_calls>>
    /\ UNCHANGED notSchemaVars

\* a schema classmethod of the converter returns
ClassSchemaCall(method, value) ==
    /\ \A i \in DOMAIN class_schemas : class_schemas[i].method # method
    /\ class_schemas' = Append(class_schemas, [method |-> method, value |-> value])
    /\ UNCHANGED <<schema_objects, interface_schemas, merged_schema, schema_pc, unroot_calls>>
    /\ UNCHANGED notSchemaVars

\* NWBConverter.get_source_schema()
GetSourceSchema == ClassSchemaCall("get_source_schema", get_source_schema)

\* NWBConverter.get_conversion_options_schema()
GetConversionOptionsSchema ==
    ClassSchemaCall("get_conversion_options_schema", get_conversion_options_schema)

\* unroot_schema(schema), on a schema of UnrootArguments or on what the
\* previous call returned
Unroot ==
    /\ Len(unroot_calls) < MaxUnrootCalls
    /\ \E schema \in IF unroot_calls = <<>> THEN UnrootArguments
                     ELSE {unroot_calls[Len(unroot_calls)].value} :
        unroot_calls' = Append(unroot_calls,
                               [schema |-> schema, value |-> unroot_schema(schema)])
    /\ UNCHANGED <<schema_objects, interface_schemas, merged_schema, schema_pc, class_schemas>>
    /\ UNCHANGED notSchemaVars

NextSchema ==
    \/ StartGetMetadataSchema
    \/ MergeInterfaceSchema
    \/ FillDefaults
    \/ GetSourceSchema
    \/ GetConversionOptionsSchema
    \/ Unroot

SpecSchema == InitSchema /\ [][NextSchema]_vars

----------------------------------------------------------------------------
(* One SpikeGLXNIDQInterface whose self.meta is set, and the converter      *)
(* methods that collect and validate its default conversion options         *)

\* the longest sequence of calls followed
MaxNIDQCalls == 3

\* the headers of a .nidq.meta file: with or without a session start time,
\* the niDev1ProductName entry and the fileCreateTime entry
NIDQHeaders == [start : BOOLEAN, device : BOOLEAN, create_time : BOOLEAN]

\* the header as the parent class reads it
ParentHeader(h) == [start |-> h.start, prb |-> FALSE, shanks |-> 1]

\* SpikeGLXNIDQInterface.get_metadata()
NIDQ_get_metadata(h, uuid) ==
    LET super == SpikeGLXMetadata(ParentHeader(h), uuid, <<"s0">>)
        with_start ==
            IF h.start
            THEN dict_deep_update(super,
                    Map("NWBFile" :> Map("session_start_time" :> Leaf("2020-11-03T10:35:10"))))
            ELSE super
        \* metadata = dict(Ecephys=dict())
        rebound == Map("Ecephys" :> EmptyDict)
        time_series_raw ==
            Map(("name" :> Leaf("TimeSeriesSync"))
                @@ ("description" :> Leaf("Raw acquisition traces for the synchronization (NIDQ) data.")))
    IN  IF h.device /\ ~h.create_time THEN Raised("KeyError")
        ELSE IF "Synchronization" \notin Keys(rebound) THEN Raised("KeyError")
        ELSE IF h.device THEN Raised("TypeError")
        ELSE Returned(With(rebound, "Synchronization",
                           With(rebound.kids["Synchronization"],
                                "TimeSeriesRaw", time_series_raw)))

\* get_schema_from_hdmf_class(TimeSeries)
TimeSeriesSchema ==
    get_base_schema(FALSE, "None", "None", <<"name">>,
                    ("name" :> TypedProperty("string"))
                    @@ ("description" :> TypedProperty("string")))

\* SpikeGLXNIDQInterface.get_metadata_schema()
NIDQ_get_metadata_schema ==
    LET metadata_schema == SpikeGLXMetadataSchema
        properties == metadata_schema.kids["properties"]
    IN  IF "Synchronization" \notin Keys(properties) THEN Raised("KeyError")
        ELSE Returned(
                With(metadata_schema, "properties",
                     With(properties, "Synchronization",
                          With(properties.kids["Synchronization"], "properties",
                               With(properties.kids["Synchronization"].kids["properties"],
                                    "TimeSeriesNIDQ", TimeSeriesSchema)))))

\* SpikeGLXNIDQInterface.get_conversion_options()
NIDQ_get_conversion_options ==
    With(EmptyDict, "es_key", Leaf("ElectricalSeriesSync"))

\* keyword parameters of SpikeGLXNIDQInterface.run_conversion other than
\* nwbfile and metadata
NIDQRunParams ==
    ("nwbfile_path" :> "any") @@ ("overwrite" :> "boolean")
    @@ ("stub_test" :> "boolean") @@ ("device_index" :> "string")
    @@ ("compression_opts" :> "any") @@ ("iterator_options" :> "any")

\* NWBConverter.get_conversion_options_schema() of a converter subclass that
\* registers the interface under the name NIDQ
NIDQConverterOptionsSchema ==
    LET conversion_options_schema ==
            get_base_schema(TRUE, "conversion_options.schema.json",
                            "Conversion options schema", <<>>, <<>>)
    IN  With(conversion_options_schema, "properties",
             Map("NIDQ" :> unroot_schema(get_schema_from_method_signature(NIDQRunParams, <<>>))))

\* NWBConverter.validate_conversion_options(conversion_options)
NIDQ_validate_conversion_options(conversion_options) ==
    IF validate(conversion_options, NIDQConverterOptionsSchema)
    THEN Returned(NoneT) ELSE Raised("ValidationError")

\* interface.run_conversion(nwbfile=..., metadata=..., **options), with the
\* metadata holding one device under Ecephys: a keyword the signature lacks
\* fails the call; the body indexes the device list with device_index, which
\* is None or a string
NIDQ_run_conversion(options) ==
    IF ~(Keys(options) \subseteq DOMAIN NIDQRunParams) THEN Raised("TypeError")
    ELSE Raised("TypeError")

InitNIDQ ==
    /\ ConverterIdle
    /\ MergeIdle
    /\ UpdateIdle
    /\ AlignIdle
    /\ MovieIdle
    /\ SchemaIdle
    /\ TTLIdle
    /\ CellExplorerIdle
    /\ nidq_meta \in NIDQHeaders
    /\ nidq_calls = <<>>

\* a method is called and returns or raises
NIDQCall(op, arguments, outcome) ==
    /\ Len(nidq_calls) < MaxNIDQCalls
    /\ nidq_calls' = Append(nidq_calls,
                            [op |-> op, arguments |-> arguments,
                             error |-> outcome.error, value |-> outcome.value])
    /\ UNCHANGED nidq_meta
    /\ UNCHANGED notNIDQVars

NIDQGetMetadata ==
    \E uuid \in UUIDs : NIDQCall("get_metadata", NoneT, NIDQ_get_metadata(nidq_meta, uuid))

NIDQGetMetadataSchema ==
    NIDQCall("get_metadata_schema", NoneT, NIDQ_get_metadata_schema)

NIDQGetConversionOptions ==
    NIDQCall("get_conversion_options", NoneT, Returned(NIDQ_get_conversion_options))

\* NWBConverter.get_conversion_options() handed to validate_conversion_options,
\* as a run with no caller overrides does
NIDQValidateDefaultOptions ==
    LET conversion_options == Map("NIDQ" :> NIDQ_get_conversion_options)
    IN  NIDQCall("validate_conversion_options", conversion_options,
                 NIDQ_validate_conversion_options(conversion_options))

\* the interface's run_conversion called with its default options
NIDQRunWithDefaultOptions ==
    NIDQCall("run_conversion", NIDQ_get_conversion_options,
             NIDQ_run_conversion(NIDQ_get_conversion_options))

NextNIDQ ==
    \/ NIDQGetMetadata
    \/ NIDQGetMetadataSchema
    \/ NIDQGetConversionOptions
    \/ NIDQValidateDefaultOptions
    \/ NIDQRunWithDefaultOptions

SpecNIDQ == InitNIDQ /\ [][NextNIDQ]_vars

----------------------------------------------------------------------------
(* get_rising_frames_from_ttl and get_falling_frames_from_ttl on one trace. *)
(* Samples are whole numbers; a frame is a 0-based index into the trace.    *)

\* the longest raveled trace followed, in samples
MaxTraceLen == 4

\* the levels a sample takes
TTLLevels == 0..2

\* trace.shape[1:] of the traces followed
LaterAxes == {<<>>, <<1>>, <<1, 1>>, <<2>>, <<0>>}

\* math.prod(shape)
RECURSIVE Prod(_)
Prod(shape) == IF shape = <<>> THEN 1 ELSE Head(shape) * Prod(Tail(shape))

\* the traces: the shape after the first axis and the samples in raveled
\* order, as many as a whole number of rows of that shape hold
TTLTraces ==
    {t \in [later_axes : LaterAxes,
            samples : UNION {[1..n -> TTLLevels] : n \in 0..MaxTraceLen}] :
        IF Prod(t.later_axes) = 0 THEN t.samples = <<>>
        ELSE Len(t.samples) % Prod(t.later_axes) = 0}

\* the threshold arguments: None, or the middle level
TTLThresholds == {NoneT, Leaf(1)}

\* the sum of the samples
RECURSIVE Sum(_)
Sum(s) == IF s = <<>> THEN 0 ELSE Head(s) + Sum(Tail(s))

\* np.sign of a whole number
Sign(x) == IF x > 0 THEN 1 ELSE IF x < 0 THEN -1 ELSE 0

\* np.sign(flattened_trace - threshold), the threshold being np.mean(trace)
\* when none is given: x - mean has the sign of len * x - sum
SignAboutThreshold(flattened_trace, threshold) ==
    [i \in DOMAIN flattened_trace |->
        IF threshold = NoneT
        THEN Sign(Len(flattened_trace) * flattened_trace[i] - Sum(flattened_trace))
        ELSE Sign(flattened_trace[i] - threshold.val)]

\* np.diff(a)
Diff(a) == [i \in 1..(Len(a) - 1) |-> a[i + 1] - a[i]]

\* np.where(flags)[0]: the 0-based positions of the true entries, ascending
Where(flags) ==
    SelectSeq([i \in DOMAIN flags |-> i - 1], LAMBDA j : flags[j + 1])

\* get_rising_frames_from_ttl without the + 1
get_rising_frames_from_ttl_NoShift(trace, threshold) ==
    IF Prod(trace.later_axes) # 1 THEN Raised("ValueError")
    ELSE LET sign == SignAboutThreshold(trace.samples, threshold)
             diff == Diff(sign)
         IN  Returned(Where([i \in DOMAIN diff |-> diff[i] > 0]))

\* get_rising_frames_from_ttl(trace, threshold)
get_rising_frames_from_ttl(trace, threshold) ==
    IF Prod(trace.later_axes) # 1 THEN Raised("ValueError")
    ELSE LET sign == SignAboutThreshold(trace.samples, threshold)
             diff == Diff(sign)
             positions == Where([i \in DOMAIN diff |-> diff[i] > 0])
         IN  Returned([i \in DOMAIN positions |-> positions[i] + 1])

\* get_falling_frames_from_ttl(trace, threshold)
get_falling_frames_from_ttl(trace, threshold) ==
    IF Prod(trace.later_axes) # 1 THEN Raised("ValueError")
    ELSE LET sign == SignAboutThreshold(trace.samples, threshold)
             diff == Diff(sign)
             positions == Where([i \in DOMAIN diff |-> diff[i] < 0])
         IN  Returned([i \in DOMAIN positions |-> positions[i] + 1])

InitTTL ==
    /\ ConverterIdle
    /\ MergeIdle
    /\ UpdateIdle
    /\ AlignIdle
    /\ MovieIdle
    /\ SchemaIdle
    /\ CellExplorerIdle
    /\ NIDQIdle
    /\ ttl_trace \in TTLTraces
    /\ ttl_threshold \in TTLThresholds
    /\ ttl_frames = [rising |-> NoneT, falling |-> NoneT]

\* rising_frames = get_rising_frames_from_ttl(trace, threshold)
GetRisingFrames ==
    /\ ttl_frames.rising = NoneT
    /\ ttl_frames' = [ttl_frames EXCEPT
                        !.rising = get_rising_frames_from_ttl(ttl_trace, ttl_threshold)]
    /\ UNCHANGED <<ttl_trace, ttl_threshold>>
    /\ UNCHANGED notTTLVars

\* falling_frames = get_falling_frames_from_ttl(trace, threshold)
GetFallingFrames ==
    /\ ttl_frames.falling = NoneT
    /\ ttl_frames' = [ttl_frames EXCEPT
                        !.falling = get_falling_frames_from_ttl(ttl_trace, ttl_threshold)]
    /\ UNCHANGED <<ttl_trace, ttl_threshold>>
    /\ UNCHANGED notTTLVars

NextTTL ==
    \/ GetRisingFrames
    \/ GetFallingFrames

SpecTTL == InitTTL /\ [][NextTTL]_vars

----------------------------------------------------------------------------
(* One CellExplorerSortingInterface: its constructor, then get_metadata()   *)

\* what the .CellClass.cellinfo.mat file of the session folder holds: no such
\* file, no CellClass struct, a struct without label, labels the mapping
\* knows, or a label it does not know
CellClassFiles == {"absent", "no_struct", "no_label", "label", "unknown_label"}

\* file_path and the session folder: whether file_path is a file, whether it
\* is named <session_id>.spikes.cellinfo.mat after its folder, whether a file
\* of that name is in the folder, whether the file holds a `spikes` struct and
\* with which fields, whether scipy can read it, and the CellClass file
CellExplorerDisks ==
    {d \in [is_file : BOOLEAN, named_after_session : BOOLEAN, session_file : BOOLEAN,
            spikes : BOOLEAN, cell_info_fields : SUBSET {"cluID", "shankID", "region"},
            scipy : BOOLEAN, cell_class : CellClassFiles] :
        /\ d.named_after_session => (d.session_file <=> d.is_file)
        /\ ~d.spikes => d.cell_info_fields = {}}

\* CellExplorerSortingInterface.__init__(file_path): the keys of the
\* properties set on the sorting extractor, or the error raised; the scipy
\* branch and the hdf5storage branch set the same keys
CellExplorerInit_Properties(d) ==
    LET from_spikes ==
            (IF "cluID" \in d.cell_info_fields THEN {"clu_id"} ELSE {})
            \cup (IF "shankID" \in d.cell_info_fields THEN {"group_id"} ELSE {})
            \cup (IF "region" \in d.cell_info_fields THEN {"location"} ELSE {})
    IN  IF ~d.is_file THEN Raised("AssertionError")
        ELSE IF ~d.spikes THEN Raised("TypeError")
        ELSE IF d.cell_class = "absent" THEN Returned(from_spikes)
        ELSE IF d.cell_class = "no_struct" THEN Raised("TypeError")
        ELSE IF d.cell_class = "no_label" THEN Returned(from_spikes)
        ELSE IF d.cell_class = "unknown_label" THEN Raised("KeyError")
        ELSE Returned(from_spikes \cup {"cell_type"})

\* what get_metadata() looks at: the file named after the session, the fields
\* the constructor kept, and the label of the CellClass file
SessionOf(d) ==
    [cellinfo |-> d.session_file,
     cell_info_fields |-> d.cell_info_fields,
     celltype |-> d.cell_class \in {"label", "unknown_label"}]

InitCellExplorer ==
    /\ ConverterIdle
    /\ MergeIdle
    /\ UpdateIdle
    /\ AlignIdle
    /\ MovieIdle
    /\ SchemaIdle
    /\ TTLIdle
    /\ NIDQIdle
    /\ cell_session \in CellExplorerDisks
    /\ cell_properties = NoneT
    /\ cell_metadata = NoneT

\* interface = CellExplorerSortingInterface(file_path=file_path)
CellExplorerInit ==
    /\ cell_properties = NoneT
    /\ cell_properties' = CellExplorerInit_Properties(cell_session)
    /\ UNCHANGED <<cell_session, cell_metadata>>
    /\ UNCHANGED notCellVars

\* interface.get_metadata(), on an interface the constructor returned
CellExplorerGetMetadata ==
    /\ cell_properties # NoneT
    /\ cell_properties.error = "None"
    /\ cell_metadata = NoneT
    /\ cell_metadata' = CellExplorerMetadata(SessionOf(cell_session))
    /\ UNCHANGED <<cell_session, cell_properties>>
    /\ UNCHANGED notCellVars

NextCellExplorer ==
    \/ CellExplorerInit
    \/ CellExplorerGetMetadata

SpecCellExplorer == InitCellExplorer /\ [][NextCellExplorer]_vars

----------------------------------------------------------------------------
(* Properties of run_conversion *)

\* a run_conversion call has been entered
RunEntered == pc \notin {"new", "ready", "ctor_failed"}

\* the caller asked for the run to be persisted to a path
PersistRequested(a) == a.save_to_file \/ a.nwbfile_path # NoneT

\* no interface has run and no output resource was acquired or created
NothingTouched ==
    /\ calls = <<>>
    /\ acquired = 0
    /\ released = 0
    /\ nwbfile_out = NoneT
    /\ nwbfile = args.nwbfile
    /\ \A h \in HandleNames : written[h] = <<>>

\* C1: a run given a caller-supplied nwbfile together with persistence to a
\* path (save_to_file true and/or an nwbfile_path) has failed with the
\* assertion error, and no interface's run_conversion was invoked and no
\* output resource acquired.
C1_ConflictFailsFirst ==
    (RunEntered /\ args.nwbfile # NoneT /\ PersistRequested(args))
        => (pc = "failed" /\ err = "AssertionError" /\ NothingTouched)

C1_Witness ==
    /\ pc = "failed"
    /\ err = "AssertionError"
    /\ args.nwbfile = Handle("caller")
    /\ ~args.save_to_file
    /\ args.nwbfile_path # NoneT
    /\ Len(data_interface_objects) = 2

\* C2: in a persisting run the output resource is acquired at most once, its
\* release routine has run exactly once whenever run_conversion has been left
\* after the acquisition (normally, or by an interface's exception), and an
\* interface's exception is what the caller then gets.
C2_ReleasedExactlyOnce ==
    /\ acquired <= 1
    /\ released <= acquired
    /\ (pc \in {"return", "done", "failed"} /\ acquired = 1) => released = 1
    /\ (pc = "done" /\ args.save_to_file) => (acquired = 1 /\ released = 1)
    /\ (RunEntered /\ ~args.save_to_file) => acquired = 0
    /\ err = "InterfaceWriteError" => pc \in {"raised", "failed"}

C2_Witness ==
    /\ pc = "failed"
    /\ err = "InterfaceWriteError"
    /\ args.save_to_file
    /\ acquired = 1
    /\ released = 1
    /\ Len(calls) = 2
    /\ Len(data_interface_objects) = 3

\* C3: once an interface's run_conversion has raised, no further interface is
\* invoked in that run, and the raise and everything after it leave what the
\* earlier interfaces wrote into the output as it was.
C3_StopAtFirstRaise ==
    [][err' = "InterfaceWriteError" =>
          /\ written' = written
          /\ err = "InterfaceWriteError" => calls' = calls]_vars

C3_Witness ==
    /\ pc = "failed"
    /\ err = "InterfaceWriteError"
    /\ Len(data_interface_objects) = 3
    /\ Len(calls) = 2
    /\ args.save_to_file
    /\ written["file"] = <<data_interface_objects[1]>>

\* the metadata of the run passes the merged metadata schema
MetadataPasses ==
    validate(metadata,
             get_metadata_schema(data_interface_objects,
                 get_metadata(data_interface_objects, meta,
                              [i \in 1..Len(data_interface_objects) |-> "uuid-1"],
                              group_order)))

\* the merged conversion options of the run pass the conversion-options schema
OptionsPass ==
    validate(ResolvedOptions(data_interface_objects, args), get_conversion_options_schema)

\* C4: a run whose metadata fails the merged metadata schema, or whose merged
\* conversion options fail the conversion-options schema, never gets past
\* validation: it ends in a validation error with no interface invoked and no
\* output resource acquired or created, whatever the output mode.
C4_ValidationFailsFast ==
    /\ (RunEntered /\ pc \notin {"metadata", "validate_metadata", "failed"}) => MetadataPasses
    /\ (RunEntered /\ pc \notin {"metadata", "validate_metadata", "options", "failed"})
            => OptionsPass
    /\ (pc = "failed" /\ err = "ValidationError") => NothingTouched
    /\ (pc \in {"metadata", "validate_metadata", "options"}) => NothingTouched

C4_Witness ==
    /\ pc = "failed"
    /\ err = "ValidationError"
    /\ MetadataPasses
    /\ ~OptionsPass
    /\ args.save_to_file
    /\ args.nwbfile_path # NoneT
    /\ Len(data_interface_objects) = 3

\* the names of the interfaces called so far, in call order
CalledNames == [i \in DOMAIN calls |-> calls[i].name]

\* the container the loop of this run shares among the interfaces
SharedHandle == IF args.save_to_file THEN nwbfile_out ELSE nwbfile

\* C5 (as claimed): a successful run has invoked the instantiated interfaces
\* in the insertion order of data_interface_classes, each exactly once, every
\* one of them with the same shared output container as its nwbfile.
C5_OrderedOnSharedHandle ==
    pc = "done" =>
        /\ CalledNames = data_interface_objects
        /\ data_interface_objects = SelectNames(data_interface_classes, source_data)
        /\ \A i \in DOMAIN calls : calls[i].nwbfile = SharedHandle

\* C6 (as claimed): a successful run returns the output path when it
\* persisted to a path and the in-memory container when it did not.
C6_ReturnsPathOrContainer ==
    pc = "done" =>
        ret = IF args.save_to_file THEN args.nwbfile_path ELSE nwbfile

\* C6 (amended): a successful run that did not persist returns the in-memory
\* container (the caller's, or the one it made); a successful run that
\* persisted to a path returns None, never the path.
C6_ReturnsContainerOrNone ==
    pc = "done" =>
        ret = IF args.save_to_file THEN NoneT
              ELSE IF args.nwbfile # NoneT THEN args.nwbfile
              ELSE make_nwbfile_from_metadata

C6_Witness ==
    /\ pc = "done"
    /\ args.save_to_file
    /\ args.nwbfile_path = Leaf("out.nwb")
    /\ Len(calls) = 2
    /\ ret = NoneT

\* C7 (as claimed): in every output mode the options passed to an interface's
\* run_conversion are its resolved options: its get_conversion_options()
\* defaults with the caller's overrides for it deep-merged on top.
C7_ResolvedOptionsPassed ==
    \A i \in DOMAIN calls :
        calls[i].options =
            GetOrEmpty(dict_deep_update(get_conversion_options(data_interface_objects),
                                        ConversionOptionsOf(args)),
                       calls[i].name)

----------------------------------------------------------------------------
(* Properties of the constructor *)

\* C8: when the source configuration fails validation against the combined
\* source schema, the constructor has failed with the validation error and no
\* interface constructor was called.
C8_InvalidSourceBuildsNothing ==
    (pc # "new" /\ ~validate(source_data, get_source_schema))
        => /\ pc = "ctor_failed"
           /\ err = "ValidationError"
           /\ init_calls = <<>>
           /\ data_interface_objects = <<>>

C8_Witness ==
    /\ pc = "ctor_failed"
    /\ err = "ValidationError"
    /\ init_calls = <<>>
    /\ Keys(source_data) = {"SpikeGLX", "Movie"}
    /\ source_data.kids["SpikeGLX"] = GoodArgs
    /\ source_data.kids["Movie"] = BadArgs

\* C9: only registered names that appear in the source configuration are ever
\* instantiated or run, and after a successful construction the instantiated
\* interfaces are exactly those names.
C9_ExactlyConfiguredRegistered ==
    /\ Range(init_calls) \subseteq (RegisteredNames \cap Keys(source_data))
    /\ Range(CalledNames) \subseteq (RegisteredNames \cap Keys(source_data))
    /\ pc \notin {"new", "ctor_failed"} =>
            Range(data_interface_objects) = RegisteredNames \cap Keys(source_data)

C9_Witness ==
    /\ pc = "done"
    /\ Keys(source_data) = {"SpikeGLX", "Child"}
    /\ CalledNames = <<"SpikeGLX", "Child">>
    /\ init_calls = <<"SpikeGLX", "Child">>

----------------------------------------------------------------------------
(* Properties of get_metadata *)

\* C10 (as claimed): any two get_metadata() calls for the same source
\* configuration return identical merged metadata, the NWBFile identifier and
\* the order of list entries included.
C10_Deterministic ==
    \A i, j \in DOMAIN md_log : md_log[i] = md_log[j]

\* a merged metadata tree without its NWBFile identifier and with the
\* ElectrodeGroup list taken as a set
WithoutDraws(md) ==
    [top \in Keys(md) |->
        IF top = "NWBFile"
        THEN [k \in Keys(md.kids[top]) \ {"identifier"} |-> md.kids[top].kids[k]]
        ELSE IF top = "Ecephys"
        THEN [k \in Keys(md.kids[top]) |->
                IF k = "ElectrodeGroup"
                THEN [kind |-> "set", members |-> Range(md.kids[top].kids[k].items)]
                ELSE md.kids[top].kids[k]]
        ELSE md.kids[top]]

\* C10 (amended): any two get_metadata() calls for the same source
\* configuration return merged metadata that agree in everything but the
\* auto-generated NWBFile identifier, drawn afresh by every call, and the
\* order of the Ecephys ElectrodeGroup entries, which may differ between two
\* converters.
C10_DeterministicButDraws ==
    \A i, j \in DOMAIN md_log : WithoutDraws(md_log[i]) = WithoutDraws(md_log[j])

C10_Witness ==
    /\ Len(md_log) = 2
    /\ md_log[1] # md_log[2]
    /\ data_interface_objects = <<"SpikeGLX", "Movie">>
    /\ meta.shanks = 2
    /\ md_log[1].kids["Ecephys"].kids["ElectrodeGroup"]
            # md_log[2].kids["Ecephys"].kids["ElectrodeGroup"]

----------------------------------------------------------------------------
(* Properties of the merge in NWBConverter.get_metadata *)

\* the interfaces merged after the i-th
LaterMetadata(i) ==
    {interface_metadata[j] : j \in (i + 1)..Len(interface_metadata)}

\* the subtrees the given sources hold under key k
LaterAt(later, k) ==
    {s.kids[k] : s \in {x \in later : x.kind = "map" /\ k \in Keys(x)}}

\* every path of part, through mapping keys and list positions, is a path of
\* whole
RECURSIVE HasPaths(_, _)
HasPaths(whole, part) ==
    /\ part.kind = "map" =>
         /\ whole.kind = "map"
         /\ \A k \in Keys(part) :
                k \in Keys(whole) /\ HasPaths(whole.kids[k], part.kids[k])
    /\ part.kind = "arr" =>
         /\ whole.kind = "arr"
         /\ Len(whole.items) >= Len(part.items)
         /\ \A n \in DOMAIN part.items : HasPaths(whole.items[n], part.items[n])

\* C11 (as claimed): the merged metadata contains, at every nesting level,
\* every key of every merged interface's own metadata, and no leaf any of
\* them contributes is dropped, whatever the later sources hold at the same
\* or an enclosing key.
C11_NoLeafDropped ==
    \A i \in DOMAIN interface_metadata :
        HasPaths(merged_metadata, interface_metadata[i])

\* every key of part, at every level of nested mappings, is a key of whole,
\* except below a key at which one of the later sources holds a value that is
\* not a mapping
RECURSIVE KeysKept(_, _, _)
KeysKept(whole, part, later) ==
    part.kind = "map" =>
        \/ \E s \in later : s.kind # "map"
        \/ /\ whole.kind = "map"
           /\ \A k \in Keys(part) :
                /\ k \in Keys(whole)
                /\ KeysKept(whole.kids[k], part.kids[k], LaterAt(later, k))

\* C11 (amended): the merged metadata contains every key of every merged
\* interface's own metadata at every level of nested mappings, except below a
\* key at which a later-merged interface holds a list or a scalar; what lies
\* inside a list is not kept when a later interface holds a list at the same
\* key.
C11_MappingKeysKept ==
    \A i \in DOMAIN interface_metadata :
        KeysKept(merged_metadata, interface_metadata[i], LaterMetadata(i))

C11_Witness ==
    /\ Len(interface_metadata) = 3
    /\ merge_objects[1].cls = "SpikeGLX"
    /\ merge_objects[1].meta.start
    /\ merge_objects[2].cls = "CellExplorer"
    /\ merge_objects[3].cls = "Movie"
    /\ Keys(merged_metadata.kids["NWBFile"])
            = {"session_description", "identifier", "session_start_time", "session_id"}
    /\ {"ElectricalSeriesRaw", "UnitProperties"} \subseteq Keys(merged_metadata.kids["Ecephys"])
    /\ "session_start_time" \notin Keys(interface_metadata[3].kids["NWBFile"])

\* wherever first and second both hold a scalar at the same path of mapping
\* keys, whole holds the second's
RECURSIVE SecondScalarWins(_, _, _)
SecondScalarWins(whole, first, second) ==
    IF first.kind = "map" /\ second.kind = "map"
    THEN /\ whole.kind = "map"
         /\ \A k \in Keys(first) \cap Keys(second) :
                /\ k \in Keys(whole)
                /\ SecondScalarWins(whole.kids[k], first.kids[k], second.kids[k])
    ELSE (first.kind = "val" /\ second.kind = "val") => whole = second

\* the interface merged last
LastMerged == interface_metadata[Len(interface_metadata)]

\* C12: right after an interface is merged, wherever it and an interface
\* registered before it both contribute a scalar at the same metadata path the
\* merged metadata holds the later interface's value, and the top-level keys
\* contributed by any merged interface are all present.
C12_SecondScalarWins ==
    /\ \A i \in DOMAIN interface_metadata :
            Keys(interface_metadata[i]) \subseteq Keys(merged_metadata)
    /\ \A i \in 1..(Len(interface_metadata) - 1) :
            SecondScalarWins(merged_metadata, interface_metadata[i], LastMerged)

C12_Witness ==
    /\ Len(interface_metadata) = 2
    /\ merge_objects[1].cls = "SpikeGLX"
    /\ merge_objects[2].cls = "Movie"
    /\ interface_metadata[1].kids["NWBFile"].kids["identifier"] = Leaf("uuid-1")
    /\ interface_metadata[2].kids["NWBFile"].kids["identifier"] = Leaf("uuid-2")
    /\ merged_metadata.kids["NWBFile"].kids["identifier"] = Leaf("uuid-2")
    /\ "Ecephys" \notin Keys(interface_metadata[2])
    /\ {"NWBFile", "Ecephys"} \subseteq Keys(merged_metadata)

\* wherever first and second both hold a list at the same path of mapping
\* keys, whole holds exactly the second's list
RECURSIVE SecondArrayReplaces(_, _, _)
SecondArrayReplaces(whole, first, second) ==
    IF first.kind = "map" /\ second.kind = "map"
    THEN /\ whole.kind = "map"
         /\ \A k \in Keys(first) \cap Keys(second) :
                /\ k \in Keys(whole)
                /\ SecondArrayReplaces(whole.kids[k], first.kids[k], second.kids[k])
    ELSE (first.kind = "arr" /\ second.kind = "arr") => whole = second

\* C14: right after an interface is merged, wherever it and an interface
\* merged before it both hold a list at the same metadata path (Ecephys
\* Device, ElectrodeGroup, Electrodes), the merged metadata holds exactly the
\* later interface's list: none of the earlier list's other elements is kept.
C14_LaterArrayReplaces ==
    \A i \in 1..(Len(interface_metadata) - 1) :
        SecondArrayReplaces(merged_metadata, interface_metadata[i], LastMerged)

C14_Witness ==
    /\ Len(interface_metadata) = 2
    /\ merge_objects[1].cls = "SpikeGLX"
    /\ merge_objects[2].cls = "SpikeGLX"
    /\ merge_objects[1].meta.shanks = 2
    /\ merge_objects[2].meta.shanks = 1
    /\ merge_objects[1].meta.prb
    /\ ~merge_objects[2].meta.prb
    /\ Len(merged_metadata.kids["Ecephys"].kids["ElectrodeGroup"].items) = 1
    /\ merged_metadata.kids["Ecephys"].kids["Device"]
            = interface_metadata[2].kids["Ecephys"].kids["Device"]
    /\ merged_metadata.kids["Ecephys"].kids["Device"]
            # interface_metadata[1].kids["Ecephys"].kids["Device"]

----------------------------------------------------------------------------
(* Properties of dict_deep_update *)

\* both groupings have been computed
BothGrouped == grouped # NoneT /\ grouped.left # NoneT /\ grouped.right # NoneT

\* C13 (as claimed): for all trees a, b, c of nested mappings, scalars and
\* lists, deep_update(deep_update(a, b), c) equals
\* deep_update(a, deep_update(b, c)).
C13_Associative ==
    BothGrouped => grouped.left = grouped.right

\* no path holds a mapping in one of the two trees and a scalar or a list in
\* the other
RECURSIVE SameShape(_, _)
SameShape(a, b) ==
    IF a.kind = "map" /\ b.kind = "map"
    THEN \A k \in Keys(a) \cap Keys(b) : SameShape(a.kids[k], b.kids[k])
    ELSE a.kind # "map" /\ b.kind # "map"

\* C13 (amended): deep_update(deep_update(a, b), c) equals
\* deep_update(a, deep_update(b, c)) for all trees a, b, c in which no path
\* holds a mapping in one tree and a scalar or a list in another.
C13_AssociativeOnSameShape ==
    (/\ BothGrouped
     /\ SameShape(operands[1], operands[2])
     /\ SameShape(operands[2], operands[3])
     /\ SameShape(operands[1], operands[3]))
        => grouped.left = grouped.right

C13_Witness ==
    /\ BothGrouped
    /\ operands[1] = Map("Ecephys" :> Map(("Device" :> Leaf("A")) @@ ("ElectrodeGroup" :> Leaf("A"))))
    /\ operands[2] = Map("Ecephys" :> Map("Device" :> Leaf("B")))
    /\ operands[3] = Map("Ecephys" :> Map("ElectrodeGroup" :> Arr(<<Leaf("A")>>)))
    /\ grouped.left = Map("Ecephys" :> Map(("Device" :> Leaf("B"))
                                           @@ ("ElectrodeGroup" :> Arr(<<Leaf("A")>>))))
    /\ grouped.right = grouped.left

----------------------------------------------------------------------------
(* Properties of the timestamp methods *)

\* the call made last
LastCall == align_calls[Len(align_calls)]

\* the last call was the given method, on an interface exposing temporal data
LastWas(op) ==
    /\ align_class = "Recording"
    /\ align_calls # <<>>
    /\ LastCall.op = op

Interpolates(t, u, xp, fp) ==
    /\ t <= xp[1] => u = fp[1]
    /\ t >= xp[Len(xp)] => u = fp[Len(fp)]
    /\ \A j \in 1..(Len(xp) - 1) :
            (xp[j] <= t /\ t <= xp[j + 1]) =>
                (u - fp[j]) * (xp[j + 1] - xp[j]) = (t - xp[j]) * (fp[j + 1] - fp[j])

\* C16: right after align_by_interpolation(unaligned, aligned), every current
\* timestamp is the piecewise-linear interpolation, through the reference
\* pairs, of the timestamp that was at its position before the call; a
\* timestamp below the first unaligned reference has become the first aligned
\* value and one above the last has become the last aligned value.
C16_Interpolated ==
    LastWas("align_by_interpolation") =>
        /\ LastCall.error = "None"
        /\ Len(timestamps) = Len(LastCall.before)
        /\ \A i \in DOMAIN timestamps :
                Interpolates(LastCall.before[i], timestamps[i],
                             LastCall.arguments[1], LastCall.arguments[2])

C16_Witness ==
    /\ LastWas("align_by_interpolation")
    /\ LastCall.arguments = <<(<<0, 10>>), (<<100, 110>>)>>
    /\ LastCall.before = <<5, 10, 15>>
    /\ timestamps = <<105, 110, 110>>

\* C17: every get_original_timestamps() call returns the timestamps the
\* source holds, the same after any sequence of align_timestamps,
\* align_starting_time and align_by_interpolation calls; alignment changes
\* only the current timestamps.
C17_OriginalUnaltered ==
    align_class = "Recording" =>
        \A i \in DOMAIN align_calls :
            align_calls[i].op = "get_original_timestamps" =>
                /\ align_calls[i].error = "None"
                /\ align_calls[i].value = source_timestamps
                /\ \A j \in DOMAIN align_calls :
                        align_calls[j].op = "get_original_timestamps" =>
                            align_calls[j].value = align_calls[i].value

C17_Witness ==
    /\ align_class = "Recording"
    /\ Len(align_calls) = 3
    /\ align_calls[1].op = "get_original_timestamps"
    /\ align_calls[2].op = "align_by_interpolation"
    /\ align_calls[3].op = "get_original_timestamps"
    /\ align_calls[3].value = <<0, 5, 10>>
    /\ timestamps = <<100, 105, 110>>

\* C18: on a BaseSegmentationExtractorInterface every call of
\* get_original_timestamps, get_timestamps, align_timestamps,
\* align_starting_time and align_by_interpolation has failed with
\* NotImplementedError, and the interface's state is as it was.
C18_NoTimestampConcept ==
    align_class = "Segmentation" =>
        /\ \A i \in DOMAIN align_calls :
                /\ align_calls[i].error = "NotImplementedError"
                /\ align_calls[i].before = NoneT
        /\ timestamps = NoneT
        /\ source_timestamps = NoneT

C18_Witness ==
    /\ align_class = "Segmentation"
    /\ Len(align_calls) = 3
    /\ align_calls[1].op = "align_timestamps"
    /\ align_calls[2].op = "align_starting_time"
    /\ align_calls[3].op = "align_by_interpolation"
    /\ \A i \in 1..3 : align_calls[i].error = "NotImplementedError"

\* C19 (as claimed): the current timestamps of an interface are non-decreasing
\* in every reachable state, after any sequence of align_timestamps,
\* align_starting_time and align_by_interpolation calls with any arguments.
C19_NonDecreasing ==
    align_class = "Recording" =>
        \A i \in 1..(Len(timestamps) - 1) : timestamps[i] <= timestamps[i + 1]

----------------------------------------------------------------------------
(* Properties of MovieInterface.run_conversion *)

\* the timestamps of the movie's frames in the run: the starting time plus
\* the frame times
WrittenTimestamps ==
    LET starting_time == IF movie_args.starting_time = NoneT THEN 0
                         ELSE movie_args.starting_time.ticks
    IN  [i \in DOMAIN movie_file.frame_times |-> starting_time + movie_file.frame_times[i]]

\* the timestamps are evenly spaced
EvenlySpaced(ts) ==
    \E d \in 0..(ts[Len(ts)] - ts[1]) : \A i \in 1..(Len(ts) - 1) : ts[i + 1] - ts[i] = d

\* the ImageSeries was written with starting_time and rate, without timestamps
Compact == {"starting_time", "rate"} \subseteq DOMAIN image_series.kwargs
           /\ "timestamps" \notin DOMAIN image_series.kwargs

\* the ImageSeries was written with the timestamps, without starting_time and rate
Explicit == "timestamps" \in DOMAIN image_series.kwargs
            /\ {"starting_time", "rate"} \cap DOMAIN image_series.kwargs = {}

\* frame i of a series starting at `start` with `rate` frames per second is
\* at ts[i], for every frame
SameInstants(start, rate, ts) ==
    \A i \in DOMAIN ts : (ts[i] - start) * rate = (i - 1) * TicksPerSecond

\* C20 (as claimed): the movie is written with the compact (starting_time,
\* rate) pair exactly when its timestamps are evenly spaced and with the
\* explicit timestamps otherwise, and the compact pair describes the same
\* instants as the timestamps.
C20_CompactDescribesTimestamps ==
    image_series # NoneT =>
        /\ Compact <=> EvenlySpaced(WrittenTimestamps)
        /\ Explicit <=> ~EvenlySpaced(WrittenTimestamps)
        /\ Explicit => image_series.kwargs["timestamps"] = WrittenTimestamps
        /\ Compact => SameInstants(image_series.kwargs["starting_time"],
                                   image_series.kwargs["rate"], WrittenTimestamps)

----------------------------------------------------------------------------
(* Properties of the schemas *)

\* at every nesting level of the schema (its properties and the items of its
\* arrays), each name listed in `required` is a key of `properties`
RECURSIVE RequiredDeclared(_)
RequiredDeclared(schema) ==
    \/ schema.kind # "map"
    \/ /\ "required" \in Keys(schema) =>
            \A r \in Range(schema.kids["required"].items) :
                /\ "properties" \in Keys(schema)
                /\ r.val \in Keys(schema.kids["properties"])
       /\ "properties" \in Keys(schema) =>
            \A k \in Keys(schema.kids["properties"]) :
                RequiredDeclared(schema.kids["properties"].kids[k])
       /\ "items" \in Keys(schema) => RequiredDeclared(schema.kids["items"])

\* every interface's schema has been merged
AllMerged == merged_schema # NoneT /\ Len(interface_schemas) = Len(schema_objects)

\* the positions of the segmentation interfaces whose schema was returned
SegmentationReturned ==
    {i \in DOMAIN interface_schemas : schema_objects[i].cls = "Segmentation"}

\* C21: in the schema NWBConverter.get_metadata_schema holds after merging
\* all interface schemas, and in the one it returns, and in the schema
\* BaseSegmentationExtractorInterface.get_metadata_schema returns, at every
\* nesting level each name listed in `required` is a key of that level's
\* `properties`.
C21_RequiredDeclared ==
    /\ AllMerged => RequiredDeclared(Deref(merged_schema))
    /\ \A i \in SegmentationReturned : RequiredDeclared(Deref(interface_schemas[i]))

\* a converter of a segmentation interface followed by a SpikeGLX interface
\* has returned its schema: required names are listed at the top level
\* below Ophys and below Ecephys
C21_Witness ==
    /\ schema_pc = "done"
    /\ Len(schema_objects) >= 2
    /\ schema_objects[1].cls = "Segmentation"
    /\ schema_objects[2].cls = "SpikeGLX"
    /\ LET properties == merged_schema.kids["properties"].kids
       IN  /\ {"Ophys", "Ecephys", "NWBFile"} \subseteq DOMAIN properties
           /\ properties["Ophys"].kids["required"].items # <<>>
           /\ properties["Ecephys"].kids["required"].items # <<>>
           /\ properties["NWBFile"].kids["required"].items # <<>>

\* the schema carries none of the root-only keys
Unrooted(schema) == Keys(schema) \cap RootOnlyKeys = {}

\* the schema embeds one unrooted schema under each registered interface's
\* name and keeps its own id, title and $schema
EmbedsUnrooted(schema) ==
    /\ RootOnlyKeys \subseteq Keys(schema)
    /\ Keys(schema.kids["properties"]) = RegisteredNames
    /\ \A n \in RegisteredNames : Unrooted(schema.kids["properties"].kids[n])

\* C22: unroot_schema applied to its own result returns that result
\* unchanged, and the schemas NWBConverter.get_source_schema and
\* get_conversion_options_schema return embed each interface's schema under
\* the interface's name without id, title or $schema, while carrying their own.
C22_UnrootedEmbedding ==
    /\ \A i \in DOMAIN unroot_calls :
            /\ Unrooted(unroot_calls[i].value)
            /\ i > 1 => unroot_calls[i].value = unroot_calls[i].schema
    /\ \A i \in DOMAIN class_schemas : EmbedsUnrooted(class_schemas[i].value)

\* unroot_schema was applied twice in a row starting from a rooted schema, and
\* both classmethods have returned
C22_Witness ==
    /\ Len(unroot_calls) = 2
    /\ RootOnlyKeys \subseteq Keys(unroot_calls[1].schema)
    /\ unroot_calls[1].value # unroot_calls[1].schema
    /\ unroot_calls[2].schema = unroot_calls[1].value
    /\ {class_schemas[i].method : i \in DOMAIN class_schemas}
            = {"get_source_schema", "get_conversion_options_schema"}

\* the names the top-level `required` of the schema lists
TopRequired(schema) == {r.val : r \in Range(schema.kids["required"].items)}

\* C27 (as claimed): the schema NWBConverter.get_metadata_schema() returns
\* lists NWBFile in its top-level `required`, whatever the instantiated
\* interfaces contribute, so that metadata without an NWBFile section does
\* not pass validation against it.
C27_NWBFileRequired ==
    schema_pc = "done" =>
        /\ "NWBFile" \in TopRequired(merged_schema)
        /\ ~validate(EmptyDict, Deref(merged_schema))

\* every property of the schema node carries as `default` the value the
\* metadata section holds under the property's name, and no default when the
\* section holds none
DefaultsFrom(node, section) ==
    \A k \in Keys(node.kids["properties"]) :
        LET property == node.kids["properties"].kids[k]
        IN  IF k \in Keys(section)
            THEN "default" \in Keys(property) /\ property.kids["default"] = section.kids[k]
            ELSE "default" \notin Keys(property)

\* C30 (as claimed): in the schema BaseSegmentationExtractorInterface
\* .get_metadata_schema() returns, the defaults under Ophys.Fluorescence are
\* the values of the metadata's Ophys.Fluorescence and the defaults under
\* Ophys.DfOverF are the values of its Ophys.DfOverF, neither taking values
\* from the other.
C30_SeparateDefaults ==
    \A i \in SegmentationReturned :
        LET ophys == Deref(interface_schemas[i]).kids["properties"].kids["Ophys"]
            values == get_nwb_segmentation_metadata(schema_objects[i].ophys).kids["Ophys"]
        IN  /\ DefaultsFrom(ophys.kids["properties"].kids["Fluorescence"],
                            GetOrEmpty(values, "Fluorescence"))
            /\ DefaultsFrom(ophys.kids["properties"].kids["DfOverF"],
                            GetOrEmpty(values, "DfOverF"))

----------------------------------------------------------------------------
(* Properties of SpikeGLXNIDQInterface *)

\* the calls of the method made so far
NIDQCallsOf(op) == {nidq_calls[i] : i \in {j \in DOMAIN nidq_calls : nidq_calls[j].op = op}}

\* the keyword parameters of the registered interface's run_conversion
RunParamsOf(name) == IF name = "SpikeGLX" THEN SpikeGLXRunParams ELSE MovieRunParams

\* C23 (as claimed): every key of an interface's get_conversion_options() is
\* a keyword parameter of its run_conversion, for the registered interfaces
\* and for SpikeGLXNIDQInterface; the defaults collected by the converter pass
\* validate_conversion_options, and every option handed to run_conversion is
\* one of its parameters.
C23_DefaultsAccepted ==
    /\ \A n \in RegisteredNames :
            Keys(InterfaceConversionOptions(n)) \subseteq DOMAIN RunParamsOf(n)
    /\ \A c \in NIDQCallsOf("get_conversion_options") :
            Keys(c.value) \subseteq DOMAIN NIDQRunParams
    /\ \A c \in NIDQCallsOf("validate_conversion_options") : c.error = "None"
    /\ \A c \in NIDQCallsOf("run_conversion") :
            Keys(c.arguments) \subseteq DOMAIN NIDQRunParams

\* the tree holds every key of the parent's tree, at every level of nested
\* mappings
RECURSIVE HoldsKeysOf(_, _)
HoldsKeysOf(tree, parent) ==
    parent.kind = "map" =>
        /\ tree.kind = "map"
        /\ \A k \in Keys(parent) :
                k \in Keys(tree) /\ HoldsKeysOf(tree.kids[k], parent.kids[k])

\* C29 (as claimed): SpikeGLXNIDQInterface.get_metadata() returns a tree for
\* every header without raising, the same on every call; the tree holds what
\* the parent interface contributes, holds NWBFile.session_start_time when
\* the header has a start time, and has a Synchronization section whose
\* entries are among the properties get_metadata_schema() declares for it.
C29_MetadataReturned ==
    \A c \in NIDQCallsOf("get_metadata") :
        /\ c.error = "None"
        /\ \A d \in NIDQCallsOf("get_metadata") : WithoutDraws(d.value) = WithoutDraws(c.value)
        /\ \E uuid \in UUIDs :
                HoldsKeysOf(c.value, SpikeGLXMetadata(ParentHeader(nidq_meta), uuid, <<"s0">>))
        /\ nidq_meta.start => "session_start_time" \in Keys(c.value.kids["NWBFile"])
        /\ "Synchronization" \in Keys(c.value)
        /\ NIDQ_get_metadata_schema.error = "None"
        /\ Keys(c.value.kids["Synchronization"])
                \subseteq Keys(NIDQ_get_metadata_schema.value.kids["properties"]
                                .kids["Synchronization"].kids["properties"])

----------------------------------------------------------------------------
(* Properties of the TTL frame detection *)

\* the side of the threshold the 0-based sample i lies on: 1 above, -1
\* below, 0 on it; the threshold is the mean of the trace when none is given
Side(i) ==
    LET x == ttl_trace.samples[i + 1]
        n == Len(ttl_trace.samples)
    IN  IF ttl_threshold = NoneT
        THEN (IF n * x > Sum(ttl_trace.samples) THEN 1
              ELSE IF n * x < Sum(ttl_trace.samples) THEN -1 ELSE 0)
        ELSE (IF x > ttl_threshold.val THEN 1
              ELSE IF x < ttl_threshold.val THEN -1 ELSE 0)

\* the frames at which the side goes up, and at which it goes down
FramesUp == {i \in 1..(Len(ttl_trace.samples) - 1) : Side(i) > Side(i - 1)}

FramesDown == {i \in 1..(Len(ttl_trace.samples) - 1) : Side(i) < Side(i - 1)}

\* the call returned exactly the frames, in strictly increasing order
ReturnedFrames(outcome, frames) ==
    /\ outcome.error = "None"
    /\ Range(outcome.value) = frames
    /\ \A i, j \in DOMAIN outcome.value : i < j => outcome.value[i] < outcome.value[j]

\* the call raised ValueError and returned nothing
RaisedValueError(outcome) == outcome.error = "ValueError" /\ outcome.value = NoneT

\* what the claim says of a call's outcome
FramesAsClaimed(outcome, frames) ==
    outcome # NoneT =>
        /\ (\E a \in Range(ttl_trace.later_axes) : a > 1) => RaisedValueError(outcome)
        /\ (\A a \in Range(ttl_trace.later_axes) : a = 1) => ReturnedFrames(outcome, frames)

\* C24: get_rising_frames_from_ttl returns, in strictly increasing order,
\* exactly the indices i in 1..n-1 at which sign(trace[i] - threshold) is
\* greater than sign(trace[i-1] - threshold), the threshold being the mean of
\* the trace when none is given; get_falling_frames_from_ttl returns those at
\* which it is smaller; both raise ValueError and return nothing when the
\* trace has more than one element along an axis after the first.
C24_FramesWhereSignChanges ==
    /\ FramesAsClaimed(ttl_frames.rising, FramesUp)
    /\ FramesAsClaimed(ttl_frames.falling, FramesDown)

\* both calls returned frames for a trace of shape (n, 1) with no threshold
\* given, at least two of them rising
C24_Witness ==
    /\ ttl_trace.later_axes = <<1>>
    /\ ttl_threshold = NoneT
    /\ ttl_frames.rising # NoneT
    /\ ttl_frames.falling # NoneT
    /\ ttl_frames.rising.error = "None"
    /\ Len(ttl_frames.rising.value) >= 2
    /\ Len(ttl_frames.falling.value) >= 1

\* both calls returned their frames
BothReturned ==
    /\ ttl_frames.rising # NoneT
    /\ ttl_frames.falling # NoneT
    /\ ttl_frames.rising.error = "None"
    /\ ttl_frames.falling.error = "None"

\* between any two consecutive frames of `these` lies exactly one of `those`
Interleaved(these, those) ==
    \A a, b \in these :
        (a < b /\ ~\E c \in these : a < c /\ c < b) =>
            Cardinality({f \in those : a < f /\ f < b}) = 1

\* C25 (as claimed): the rising and the falling frames of a trace alternate:
\* no frame is both, between two consecutive rising frames there is exactly
\* one falling frame, and between two consecutive falling frames exactly one
\* rising frame, also when samples equal the threshold.
C25_Alternate ==
    BothReturned =>
        LET rising == Range(ttl_frames.rising.value)
            falling == Range(ttl_frames.falling.value)
        IN  /\ rising \cap falling = {}
            /\ Interleaved(rising, falling)
            /\ Interleaved(falling, rising)

----------------------------------------------------------------------------
(* Properties of the data MovieInterface.run_conversion embeds *)

\* the ImageSeries was built with the frames of the movie embedded
Embedded == image_series # NoneT /\ "data" \in DOMAIN image_series.kwargs

\* the number of frames the run is to write
FramesToWrite ==
    LET total_frames == Len(movie_file.frame_times)
    IN  IF movie_args.stub_test /\ StubCountMax < total_frames
        THEN StubCountMax ELSE total_frames

\* C26 (as claimed): an ImageSeries built with embedded data holds as many
\* frames as its temporal description has time points, whatever stub_test,
\* chunk_data and the regularity of the timestamps: the frames are the first
\* min(10, total_frames) in a stub run and all frames otherwise, and explicit
\* timestamps are those of exactly the frames written.
C26_TimePointsMatchFrames ==
    Embedded =>
        /\ image_series.kwargs["data"].frames = FramesToWrite
        /\ Explicit =>
                image_series.kwargs["timestamps"]
                    = SubSeq(WrittenTimestamps, 1, image_series.kwargs["data"].frames)

----------------------------------------------------------------------------
(* Properties of CellExplorerSortingInterface *)

\* the names of the unit properties the metadata describes
DescribedProperties ==
    {p.kids["name"].val : p \in Range(cell_metadata.kids["Ecephys"].kids["UnitProperties"].items)}

\* C28 (as claimed): the unit properties get_metadata() describes under
\* Ecephys.UnitProperties are exactly the properties the constructor set on
\* the sorting extractor, for every file_path the constructor accepts and
\* every combination of fields in the spikes and CellClass files.
C28_DescribedAreSet ==
    cell_metadata # NoneT => DescribedProperties = cell_properties.value

====
